---- MODULE Spec2Model ----
(***************************************************************************)
(* Model of server-name-picker: the proxmox-service and ipam-service       *)
(* endpoints and built-in Kafka consumers, and the kafka-consumer bridge.  *)
(*                                                                         *)
(* Strings on which the code computes (host names, prefixes) are sequences *)
(* of one-character strings; identifiers the code only copies (requestId,  *)
(* key, subnetId, ip) are plain strings.  A JavaScript value that may be   *)
(* undefined is a record [has, val].                                       *)
(***************************************************************************)
EXTENDS Integers, Sequences, FiniteSets, TLC

VARIABLES
    vms,                \* ProxMox inventory: names of /cluster/resources?type=vm
    firstFree,          \* phpIPAM: subnet id -> first free address (has = FALSE: exhausted)
    allocated,          \* phpIPAM: set of allocated addresses
    staticToken,        \* PHPIPAM_API_TOKEN (has = FALSE: not configured)
    faulty,             \* whether calls between processes may fail (transport
                        \* errors, error statuses of a reachable upstream, rejected
                        \* publishes)
    tokenCache,         \* ipam-service cache entry 'phpipam_token'
    hostnameRequests,   \* topic hostname-requests (log of messages)
    hostnameResponses,  \* topic hostname-responses
    ipRequests,         \* topic ip-requests
    ipResponses,        \* topic ip-responses
    pc,                 \* per consumer: position of its eachMessage handler
    offset,             \* per consumer: number of messages of its topic consumed
    request,            \* per consumer: the handler's local `request`
    response,           \* per consumer: the handler's local `response` / decision
    http,               \* last HTTP exchange on a service or gateway endpoint
    log,                \* per consumer: what its handler logged for each message
    prev,               \* the HTTP exchange before the last one
    hits,               \* express-rate-limit: requests counted in the current window
    nodeCache,          \* proxmox-service node-cache: key -> entry
    now,                \* the clock the cache reads, in seconds
    userActivity,       \* topic user-activity
    activityOffset,     \* userActivityConsumer: number of activity events consumed
    activityLog,        \* what processUserActivity logged for each event
    crashes,            \* the crashes of the bridge process: for each one, the
                        \* messages whose handlers it cut short
    phase,              \* ipam-service process: position of its SIGTERM handler
    ipamCache,          \* ipam-service node-cache: key -> entry (with its ttl)
    header,             \* phpIpamApi.defaults.headers.common['token']
    handlers,           \* GET /ipam/subnets: the handlers in flight and their locals
    sent,               \* the last request sent to phpIPAM through phpIpamApi
    authReq,            \* auth-service: the login or logout request being handled
    ui                  \* web client: the state of App, local storage and the router

vars == <<vms, firstFree, allocated, staticToken, faulty, tokenCache, hostnameRequests,
          hostnameResponses, ipRequests, ipResponses, pc, offset, request,
          response, http, log, prev, hits, nodeCache, now,
          userActivity, activityOffset, activityLog, crashes, phase,
          ipamCache, header, handlers, sent, authReq, ui>>

\* groups of variables
Topics == <<hostnameRequests, hostnameResponses, ipRequests, ipResponses>>
Upstream == <<vms, firstFree, allocated, staticToken, faulty>>
Bus == <<pc, offset, request, response, log>>
Side == <<prev, hits, nodeCache, now>>
Activity == <<userActivity, activityOffset, activityLog>>
Ipam == <<ipamCache, header, handlers, sent>>
Ext == <<Activity, crashes, phase, Ipam, authReq, ui>>

----------------------------------------------------------------------------
(* Bounds *)

MaxRequests == 2        \* request messages placed on the two request topics together
MaxTime == 600          \* the clock stops there, in seconds
TickStep == 100         \* seconds between two instants at which something happens

----------------------------------------------------------------------------
(* JavaScript values *)

Undef      == [has |-> FALSE, val |-> <<>>]     \* undefined, where a char sequence may stand
Def(v)     == [has |-> TRUE,  val |-> v]
UndefId    == [has |-> FALSE, val |-> ""]       \* undefined, where a plain string may stand
\* JavaScript truthiness of a string-or-undefined value: !x is true for undefined and ''
Truthy(x)   == x.has /\ x.val # <<>>
TruthyId(x) == x.has /\ x.val # ""

Digits == <<"0", "1", "2", "3", "4", "5", "6", "7", "8", "9">>
IsDigit(c) == \E i \in 1..10 : Digits[i] = c
DigitVal(c) == (CHOOSE i \in 1..10 : Digits[i] = c) - 1

\* String.prototype.toLowerCase on the model's alphabet
LowerChar(c) ==
    CASE c = "W" -> "w"
      [] c = "E" -> "e"
      [] c = "B" -> "b"
      [] c = "X" -> "x"
      [] OTHER   -> c
toLowerCase(s) == [i \in 1..Len(s) |-> LowerChar(s[i])]

startsWith(s, p) == Len(p) <= Len(s) /\ SubSeq(s, 1, Len(p)) = p

RECURSIVE parseIntFrom(_, _)
\* parseInt of a digit string: value of ds read in base 10, acc the value so far
parseIntFrom(ds, acc) ==
    IF ds = <<>> THEN acc
    ELSE parseIntFrom(Tail(ds), acc * 10 + DigitVal(Head(ds)))
parseInt(ds) == parseIntFrom(ds, 0)

RECURSIVE NatToStr(_)
\* `${n}` for a non-negative integer: decimal digits, no leading zero
NatToStr(n) ==
    IF n < 10 THEN <<Digits[n + 1]>>
    ELSE NatToStr(n \div 10) \o <<Digits[(n % 10) + 1]>>

\* variant of matchDigits for a pattern without the closing `$`: the digits that
\* follow the prefix are captured whatever comes after them
matchDigits_unanchored(name, prefix) ==
    LET n == Len(name)
        k == Len(prefix)
        run == { m \in 1..(n - k) : \A i \in (k + 1)..(k + m) : IsDigit(name[i]) }
    IN  IF /\ n > k
           /\ \A i \in 1..k : LowerChar(name[i]) = LowerChar(prefix[i])
           /\ run # {}
        THEN SubSeq(name, k + 1, k + Cardinality(run))
        ELSE <<>>

\* name.match(new RegExp(`^${prefix}(\\d+)$`, 'i')): the captured digits, or <<>>
\* when the name does not match (prefix of letters, digits and '-' only, so every
\* character of the pattern is a literal compared case-insensitively)
matchDigits(name, prefix) ==
    LET n == Len(name)
        k == Len(prefix)
    IN  IF /\ n > k
           /\ \A i \in 1..k : LowerChar(name[i]) = LowerChar(prefix[i])
           /\ \A i \in (k + 1)..n : IsDigit(name[i])
        THEN SubSeq(name, k + 1, n)
        ELSE <<>>

RECURSIVE maxNumberFrom(_, _, _)
\* the forEach of check-hostname over existingPrefixNames: the highest number of
\* a name matching ^prefix(\d+)$, starting from acc
maxNumberFrom(names, prefix, acc) ==
    IF names = <<>> THEN acc
    ELSE LET d   == matchDigits(Head(names), prefix)
             num == parseInt(d)
         IN  maxNumberFrom(Tail(names), prefix,
                           IF d # <<>> /\ num > acc THEN num ELSE acc)

\* vms.filter(vm => vm.name.toLowerCase().startsWith(prefixLower)).map(vm => vm.name)
existingPrefixNames(names, prefix) ==
    LET hasPrefix(nm) == startsWith(toLowerCase(nm), toLowerCase(prefix))
    IN  SelectSeq(names, hasPrefix)

\* the suggestions built by check-hostname for a truthy prefix
suggestionsFor(names, prefix) ==
    LET maxNumber == maxNumberFrom(existingPrefixNames(names, prefix), prefix, 0)
    IN  [i \in 1..3 |-> prefix \o NatToStr(maxNumber + i)]

\* variant of exists that compares the names as they are written
exists_caseSensitive(names, hostname) ==
    \E i \in 1..Len(names) : names[i] = hostname

\* vms.some(vm => vm.name.toLowerCase() === normalizedHostname)
exists(names, hostname) ==
    \E i \in 1..Len(names) : toLowerCase(names[i]) = toLowerCase(hostname)

----------------------------------------------------------------------------
(* HTTP bodies and the service endpoints *)

NoBool   == [has |-> FALSE, val |-> FALSE]
NoSugg   == [has |-> FALSE, val |-> <<>>]

\* a JSON body of a service answer; absent fields have has = FALSE
Body(error, available, suggestions, ip, subnetId) ==
    [error |-> error, available |-> available, suggestions |-> suggestions,
     ip |-> ip, subnetId |-> subnetId]
ErrorBody(error) == Body(error, NoBool, NoSugg, UndefId, UndefId)
\* transport failure: nothing received
NoResponse == [status |-> 0, data |-> ErrorBody(""), calls |-> <<>>]

\* req.headers.authorization?.split(' ')[1]; the header is a sequence of words
bearerToken(authorization) ==
    IF authorization.has /\ Len(authorization.val) >= 2
    THEN Def(authorization.val[2]) ELSE UndefId

\* variant of verifyToken that lets every request through
verifyToken_open(authorization) == TRUE

\* verifyToken: TRUE when next() is called, FALSE when it answers 401
verifyToken(authorization) ==
    LET token == bearerToken(authorization)
    IN  token.has /\ token.val # ""

\* POST /proxmox/check-hostname; upstream = [ok, names] is the answer of
\* proxmoxApi.get('/cluster/resources?type=vm').  calls lists the requests the
\* handler issued to the upstream, in order
checkHostname(authorization, body, upstream) ==
    IF ~verifyToken(authorization)
    THEN [status |-> 401, data |-> ErrorBody("Unauthorized"), calls |-> <<>>]
    ELSE IF ~Truthy(body.hostname)
    THEN [status |-> 400, data |-> ErrorBody("Bad Request"), calls |-> <<>>]
    ELSE IF ~upstream.ok
    THEN [status |-> 500, data |-> ErrorBody("Internal Server Error"),
          calls |-> <<"cluster/resources">>]
    ELSE IF exists(upstream.names, body.hostname.val)
    THEN [status |-> 200,
          data |-> Body("", [has |-> TRUE, val |-> FALSE], NoSugg, UndefId, UndefId),
          calls |-> <<"cluster/resources">>]
    ELSE [status |-> 200,
          data |-> Body("", [has |-> TRUE, val |-> TRUE],
                        [has |-> TRUE,
                         val |-> IF Truthy(body.prefix)
                                 THEN suggestionsFor(upstream.names, body.prefix.val)
                                 ELSE <<>>],
                        UndefId, UndefId),
          calls |-> <<"cluster/resources">>]

\* authenticateIpam; cache = the entry 'phpipam_token', static = PHPIPAM_API_TOKEN
\* (has = FALSE when not configured), login = [ok, token] is the answer of the
\* username/password request.  ok = FALSE: the function throws.  loggedIn: the
\* username/password request was issued
authenticateIpam(cache, static, login) ==
    IF TruthyId(cache)
    THEN [ok |-> TRUE, token |-> cache.val, cache |-> cache, loggedIn |-> FALSE]
    ELSE IF TruthyId(static)
    THEN [ok |-> TRUE, token |-> static.val, cache |-> Def(static.val), loggedIn |-> FALSE]
    ELSE IF login.ok
    THEN [ok |-> TRUE, token |-> login.token, cache |-> Def(login.token), loggedIn |-> TRUE]
    ELSE [ok |-> FALSE, token |-> "", cache |-> cache, loggedIn |-> TRUE]

\* the upstream requests authenticateIpam issued
loginCalls(auth) == IF auth.loggedIn THEN <<"user">> ELSE <<>>

\* phpIPAM: the subnet that holds each address of the inventory
subnetOf ==
    [a \in {"10.0.0.5", "10.0.0.9"} |-> IF a = "10.0.0.9" THEN "20" ELSE "10"]

\* variant of checkIp that takes any data field of the search answer for a record
checkIp_anyData(authorization, body, cache, static, login, search) ==
    LET auth  == authenticateIpam(cache, static, login)
        found == search.data.has
    IN  IF ~verifyToken(authorization)
        THEN [status |-> 401, data |-> ErrorBody("Unauthorized"), cache |-> cache,
              calls |-> <<>>]
        ELSE IF ~TruthyId(body.subnetId)
        THEN [status |-> 400, data |-> ErrorBody("Bad Request"), cache |-> cache,
              calls |-> <<>>]
        ELSE IF ~auth.ok
        THEN [status |-> 500, data |-> ErrorBody("Internal Server Error"),
              cache |-> auth.cache, calls |-> loginCalls(auth)]
        ELSE IF ~TruthyId(body.ip)
        THEN [status |-> 400, data |-> ErrorBody("Bad Request"), cache |-> auth.cache,
              calls |-> loginCalls(auth)]
        ELSE IF ~search.ok
        THEN [status |-> 500, data |-> ErrorBody("Internal Server Error"),
              cache |-> auth.cache,
              calls |-> loginCalls(auth) \o <<"addresses/search">>]
        ELSE [status |-> 200,
              data |-> Body("", [has |-> TRUE, val |-> ~found], NoSugg, UndefId, UndefId),
              cache |-> auth.cache,
              calls |-> loginCalls(auth) \o <<"addresses/search">>]

\* variant of checkIp that counts only the records of the requested subnet
checkIp_scoped(authorization, body, cache, static, login, search) ==
    LET auth  == authenticateIpam(cache, static, login)
        found == /\ search.data.has /\ Len(search.data.val) > 0
                 /\ subnetOf[body.ip.val] = body.subnetId.val
    IN  IF ~verifyToken(authorization)
        THEN [status |-> 401, data |-> ErrorBody("Unauthorized"), cache |-> cache,
              calls |-> <<>>]
        ELSE IF ~TruthyId(body.subnetId)
        THEN [status |-> 400, data |-> ErrorBody("Bad Request"), cache |-> cache,
              calls |-> <<>>]
        ELSE IF ~auth.ok
        THEN [status |-> 500, data |-> ErrorBody("Internal Server Error"),
              cache |-> auth.cache, calls |-> loginCalls(auth)]
        ELSE IF ~TruthyId(body.ip)
        THEN [status |-> 400, data |-> ErrorBody("Bad Request"), cache |-> auth.cache,
              calls |-> loginCalls(auth)]
        ELSE IF ~search.ok
        THEN [status |-> 500, data |-> ErrorBody("Internal Server Error"),
              cache |-> auth.cache,
              calls |-> loginCalls(auth) \o <<"addresses/search">>]
        ELSE [status |-> 200,
              data |-> Body("", [has |-> TRUE, val |-> ~found], NoSugg, UndefId, UndefId),
              cache |-> auth.cache,
              calls |-> loginCalls(auth) \o <<"addresses/search">>]

\* POST /ipam/check-ip; search = [ok, kind, data] is the answer of
\* addresses/search/<ip>, data the list of address records it carries (has = FALSE:
\* no data field)
checkIp(authorization, body, cache, static, login, search) ==
    LET auth  == authenticateIpam(cache, static, login)
        found == search.data.has /\ Len(search.data.val) > 0
    IN  IF ~verifyToken(authorization)
        THEN [status |-> 401, data |-> ErrorBody("Unauthorized"), cache |-> cache,
              calls |-> <<>>]
        ELSE IF ~TruthyId(body.subnetId)
        THEN [status |-> 400, data |-> ErrorBody("Bad Request"), cache |-> cache,
              calls |-> <<>>]
        ELSE IF ~auth.ok
        THEN [status |-> 500, data |-> ErrorBody("Internal Server Error"),
              cache |-> auth.cache, calls |-> loginCalls(auth)]
        ELSE IF ~TruthyId(body.ip)
        THEN [status |-> 400, data |-> ErrorBody("Bad Request"), cache |-> auth.cache,
              calls |-> loginCalls(auth)]
        ELSE IF ~search.ok
        THEN [status |-> 500, data |-> ErrorBody("Internal Server Error"),
              cache |-> auth.cache,
              calls |-> loginCalls(auth) \o <<"addresses/search">>]
        ELSE [status |-> 200,
              data |-> Body("", [has |-> TRUE, val |-> ~found], NoSugg, UndefId, UndefId),
              cache |-> auth.cache,
              calls |-> loginCalls(auth) \o <<"addresses/search">>]

\* variant of nextAvailable that asks the upstream a second time when the first
\* first_free request fails
nextAvailable_retrying(authorization, body, cache, static, login, free) ==
    LET auth == authenticateIpam(cache, static, login)
    IN  IF ~verifyToken(authorization)
        THEN [status |-> 401, data |-> ErrorBody("Unauthorized"), cache |-> cache,
              calls |-> <<>>]
        ELSE IF ~TruthyId(body.subnetId)
        THEN [status |-> 400, data |-> ErrorBody("Bad Request"), cache |-> cache,
              calls |-> <<>>]
        ELSE IF ~auth.ok
        THEN [status |-> 500, data |-> ErrorBody("Internal Server Error"),
              cache |-> auth.cache, calls |-> loginCalls(auth)]
        ELSE IF ~free.ok
        THEN [status |-> 500, data |-> ErrorBody("Internal Server Error"),
              cache |-> auth.cache,
              calls |-> loginCalls(auth) \o <<"first_free", "first_free">>]
        ELSE [status |-> 200,
              data |-> Body("", NoBool, NoSugg, free.data, body.subnetId),
              cache |-> auth.cache, calls |-> loginCalls(auth) \o <<"first_free">>]

\* POST /ipam/next-available; free = [ok, kind, data] is the answer of
\* subnets/<id>/first_free
nextAvailable(authorization, body, cache, static, login, free) ==
    LET auth == authenticateIpam(cache, static, login)
    IN  IF ~verifyToken(authorization)
        THEN [status |-> 401, data |-> ErrorBody("Unauthorized"), cache |-> cache,
              calls |-> <<>>]
        ELSE IF ~TruthyId(body.subnetId)
        THEN [status |-> 400, data |-> ErrorBody("Bad Request"), cache |-> cache,
              calls |-> <<>>]
        ELSE IF ~auth.ok
        THEN [status |-> 500, data |-> ErrorBody("Internal Server Error"),
              cache |-> auth.cache, calls |-> loginCalls(auth)]
        ELSE IF ~free.ok
        THEN [status |-> 500, data |-> ErrorBody("Internal Server Error"),
              cache |-> auth.cache, calls |-> loginCalls(auth) \o <<"first_free">>]
        ELSE [status |-> 200,
              data |-> Body("", NoBool, NoSugg, free.data, body.subnetId),
              cache |-> auth.cache, calls |-> loginCalls(auth) \o <<"first_free">>]

----------------------------------------------------------------------------
(* The upstream inventories, as the services see them *)

W3   == <<"w", "e", "b", "3">>
W7   == <<"W", "E", "B", "7">>
WX   == <<"w", "e", "b", "x">>
W9   == <<"w", "e", "b", "9">>
W07  == <<"W", "e", "b", "0", "7">>
W99  == <<"w", "e", "b", "9", "9">>
DB1  == <<"d", "b", "1">>
W9x  == <<"w", "e", "b", "9", "x">>
Web  == <<"w", "e", "b">>
WEBu == <<"W", "E", "B">>

\* inventories the hostname engine is exercised on
Inventories ==
    { <<>>, <<W3, W7, WX>>, <<W7, W3>>, <<W07, DB1>>, <<WX, DB1>>, <<W99, W9>>,
      <<W9x, W3>> }

\* answers of GET /cluster/resources?type=vm: the inventory, or a failure
\* (transport error or non-2xx status, on which axios throws)
ProxmoxAnswers ==
    { [ok |-> TRUE, names |-> vms] } \cup
    IF faulty THEN { [ok |-> FALSE, names |-> <<>>] } ELSE {}

\* outcomes of a call that fails only by a fault: TRUE = it succeeds
Outcomes == IF faulty THEN BOOLEAN ELSE {TRUE}

Subnets   == {"10", "20"}
Addresses == {"10.0.0.5", "10.0.0.9"}

\* answers of the phpIPAM login request; kind tells how a failing call fails:
\* "failed" is an error status or a transport error, on which axios throws
LoginAnswers ==
    { [ok |-> TRUE, kind |-> "ok", token |-> "tok1"] } \cup
    IF faulty THEN { [ok |-> FALSE, kind |-> "failed", token |-> ""] } ELSE {}

\* answers of GET addresses/search/<ip>: the records of the allocated addresses
\* equal to ip; when there is none, an empty list or no data field at all
SearchAnswers(ip) ==
    (IF faulty THEN { [ok |-> FALSE, kind |-> "failed", data |-> Undef] } ELSE {}) \cup
    IF ip \in allocated
    THEN { [ok |-> TRUE, kind |-> "ok", data |-> Def(<<ip>>)] }
    ELSE { [ok |-> TRUE, kind |-> "ok", data |-> Def(<<>>)],
           [ok |-> TRUE, kind |-> "ok", data |-> Undef] }

\* answers of GET subnets/<id>/first_free: for a subnet the inventory knows, its
\* first free address (an error status when it is exhausted); the URL built from a
\* missing or unknown id is answered as the upstream pleases
FirstFreeAnswers(subnetId) ==
    (IF faulty THEN { [ok |-> FALSE, kind |-> "failed", data |-> UndefId] } ELSE {}) \cup
    IF subnetId.has /\ subnetId.val \in Subnets
    THEN IF firstFree[subnetId.val].has
         THEN { [ok |-> TRUE, kind |-> "ok", data |-> firstFree[subnetId.val]] }
         ELSE { [ok |-> FALSE, kind |-> "exhausted", data |-> UndefId] }
    ELSE { [ok |-> TRUE, kind |-> "ok", data |-> Def(a)] : a \in Addresses }
         \cup { [ok |-> FALSE, kind |-> "failed", data |-> UndefId] }

----------------------------------------------------------------------------
(* The message bus *)

BridgeHostname == "kafka-consumer-group-hostname-requests"
BridgeIp       == "kafka-consumer-group-ip-requests"
ProxmoxGroup   == "proxmox-service-group"
IpamGroup      == "ipam-service-group"
Consumers      == {BridgeHostname, BridgeIp, ProxmoxGroup, IpamGroup}

\* the request topic a consumer group is subscribed to
Subscribed(c) ==
    IF c \in {BridgeHostname, ProxmoxGroup} THEN hostnameRequests ELSE ipRequests

\* clientId of the producer a consumer's handler publishes with
clientId(c) ==
    CASE c \in {BridgeHostname, BridgeIp} -> "kafka-consumer"
      [] c = ProxmoxGroup                 -> "proxmox-service"
      [] c = IpamGroup                    -> "ipam-service"

Keys == {"k1"}

\* the requestId a client gives to the n-th request it places on the bus: ids are
\* unique per request, as the data model requires of the issuing client
RequestId(n) == "r" \o ToString(n)

\* (hostname, prefix) pairs of the request payloads: hostname absent, empty,
\* taken (WEB7) and free (web9)
HostnameSubjects ==
    { <<Undef, Undef>>, <<Def(<<>>), Undef>>, <<Def(W7), Undef>>, <<Def(W7), Def(Web)>>,
      <<Def(W9), Undef>>, <<Def(W9), Def(Web)>> }

\* payloads a client may place on hostname-requests as its n-th request;
\* json = FALSE is a value JSON.parse rejects
HostnamePayloads(n) ==
    { [json |-> TRUE, requestId |-> Def(RequestId(n)), hostname |-> hp[1], prefix |-> hp[2]] :
        hp \in HostnameSubjects }
    \cup { [json |-> FALSE, requestId |-> UndefId, hostname |-> Undef, prefix |-> Undef] }

\* payloads a client may place on ip-requests as its n-th request
IpPayloads(n) ==
    { [json |-> TRUE, requestId |-> Def(RequestId(n)), subnetId |-> s, ip |-> a] :
        s \in {UndefId, Def("10")}, a \in {UndefId, Def("10.0.0.9")} }
    \cup { [json |-> FALSE, requestId |-> UndefId, subnetId |-> UndefId, ip |-> UndefId] }

\* number of requests placed on the bus so far
Placed == Len(hostnameRequests) + Len(ipRequests)

NoRequest   == [json |-> FALSE]
NoDecision  == ErrorBody("")
NoHeader    == [has |-> FALSE, val |-> <<>>]
NoHttp      == [endpoint |-> "none"]
NoEntry     == [has |-> FALSE, v |-> <<>>, set |-> 0, t |-> 0]
CacheKeys   == {"proxmox_hosts"}
NoEntries   == [k \in CacheKeys |-> NoEntry]

\* ipam-service: the keys of its cache, an absent entry (v is the JavaScript
\* value stored, which may be undefined), the handlers of GET /ipam/subnets
MaxHandlers == 2
Handlers    == 1..MaxHandlers
IpamKeys    == {"phpipam_token", "ipam_subnets"}
NoIpamEntry == [has |-> FALSE, v |-> Undef, set |-> 0, t |-> 0]
NoIpamEntries == [k \in IpamKeys |-> NoIpamEntry]
NoToken     == [has |-> FALSE, val |-> <<>>, issued |-> 0]
NoSent      == [has |-> FALSE, val |-> <<>>, issued |-> 0, at |-> 0]
Idle        == [pc |-> "idle", stored |-> FALSE, calls |-> <<>>]
NoUi        == [mounted |-> FALSE, loading |-> TRUE,
                token |-> [has |-> FALSE, val |-> ""],
                isAuthenticated |-> FALSE, user |-> [has |-> FALSE, val |-> ""],
                path |-> "/",
                login |-> FALSE, logouts |-> 0, last |-> "none"]
NoAuth      == [pc |-> "idle", route |-> "none", headersSent |-> FALSE,
                attempts |-> <<>>, status |-> 0, destroyed |-> FALSE,
                verified |-> FALSE, accepted |-> FALSE, published |-> 0]

\* the state, after construction, of the parts a specification leaves idle
ExtIdle ==
    /\ userActivity = <<>>
    /\ activityOffset = 0
    /\ activityLog = <<>>
    /\ crashes = <<>>
    /\ phase = "running"
    /\ ipamCache = NoIpamEntries
    /\ header = NoToken
    /\ handlers = [h \in Handlers |-> Idle]
    /\ sent = NoSent
    /\ authReq = NoAuth
    /\ ui = NoUi

\* the message a consumer's handler is processing
current(c) == Subscribed(c)[offset[c] + 1]

\* a request is placed on hostname-requests
publishHostnameRequest ==
    /\ Placed < MaxRequests
    /\ \E k \in Keys, v \in HostnamePayloads(Placed + 1) :
          hostnameRequests' = Append(hostnameRequests, [key |-> k, value |-> v])
    /\ UNCHANGED <<vms, firstFree, allocated, staticToken, faulty, tokenCache,
                   hostnameResponses, ipRequests, ipResponses, pc, offset,
                   request, response, http, log, Side, Ext>>

\* a request is placed on ip-requests
publishIpRequest ==
    /\ Placed < MaxRequests
    /\ \E k \in Keys, v \in IpPayloads(Placed + 1) :
          ipRequests' = Append(ipRequests, [key |-> k, value |-> v])
    /\ UNCHANGED <<vms, firstFree, allocated, staticToken, faulty, tokenCache,
                   hostnameRequests, hostnameResponses, ipResponses, pc, offset,
                   request, response, http, log, Side, Ext>>

\* the handler of consumer c returns (normally or through its catch): kafkajs
\* resolves eachMessage and moves on to the next offset.  event is what the handler
\* logged on its way out: "invalid" (validation), "processed" (published), or the
\* cause of the error its catch logged: "parse" (JSON.parse), "engine" (the call to
\* the service or to the upstream), "typeerror", "publish" (producer.send)
Resolved(c, event) ==
    /\ log' = [log EXCEPT ![c] = Append(@, event)]
    /\ pc' = [pc EXCEPT ![c] = "idle"]
    /\ offset' = [offset EXCEPT ![c] = @ + 1]
    /\ request' = [request EXCEPT ![c] = NoRequest]
    /\ response' = [response EXCEPT ![c] = NoDecision]

\* the handler of consumer c goes on to its next await
Goto(c, label, req, resp) ==
    /\ pc' = [pc EXCEPT ![c] = label]
    /\ request' = [request EXCEPT ![c] = req]
    /\ response' = [response EXCEPT ![c] = resp]
    /\ UNCHANGED <<offset, log>>

\* processHostnameRequest up to its first await: parse and validate
processHostnameRequest_parse ==
    LET c == BridgeHostname
    IN  /\ pc[c] = "idle" /\ offset[c] < Len(Subscribed(c))
        /\ IF current(c).value.json /\ Truthy(current(c).value.hostname)
           THEN Goto(c, "call", current(c).value, NoDecision)
           ELSE Resolved(c, IF current(c).value.json THEN "invalid" ELSE "parse")
        /\ UNCHANGED <<Upstream, tokenCache, Topics, http, Side, Ext>>

\* variant of processHostnameRequest_post whose catch answers the request: when
\* the call fails it publishes a response without a decision
processHostnameRequest_post_answering ==
    LET c == BridgeHostname
    IN  /\ pc[c] = "call"
        /\ \E reachable \in Outcomes, up \in ProxmoxAnswers :
             LET r == IF reachable
                      THEN checkHostname(NoHeader,
                                         [hostname |-> request[c].hostname,
                                          prefix |-> request[c].prefix], up)
                      ELSE NoResponse
             IN  IF r.status >= 200 /\ r.status < 300
                 THEN /\ Goto(c, "send", request[c], r.data)
                      /\ UNCHANGED Topics
                 ELSE /\ hostnameResponses' =
                            Append(hostnameResponses,
                                   [key |-> current(c).key, by |-> clientId(c),
                                    src |-> offset[c] + 1,
                                    requestId |-> request[c].requestId,
                                    hostname |-> request[c].hostname,
                                    available |-> NoBool, suggestions |-> NoSugg])
                      /\ UNCHANGED <<hostnameRequests, ipRequests, ipResponses>>
                      /\ Resolved(c, "engine")
        /\ UNCHANGED <<Upstream, tokenCache, http, Side, Ext>>

\* processHostnameRequest: axios.post to /proxmox/check-hostname settles.  The
\* call carries no Authorization header; reachable = FALSE is a transport error
processHostnameRequest_post ==
    LET c == BridgeHostname
    IN  /\ pc[c] = "call"
        /\ \E reachable \in Outcomes, up \in ProxmoxAnswers :
             LET r == IF reachable
                      THEN checkHostname(NoHeader,
                                         [hostname |-> request[c].hostname,
                                          prefix |-> request[c].prefix], up)
                      ELSE NoResponse
             IN  IF r.status >= 200 /\ r.status < 300
                 THEN Goto(c, "send", request[c], r.data)
                 ELSE Resolved(c, "engine")
        /\ UNCHANGED <<Upstream, tokenCache, Topics, http, Side, Ext>>

\* proxmox-service eachMessage up to its first await: parse, no validation
proxmoxEachMessage_parse ==
    LET c == ProxmoxGroup
    IN  /\ pc[c] = "idle" /\ offset[c] < Len(Subscribed(c))
        /\ IF current(c).value.json
           THEN Goto(c, "call", current(c).value, NoDecision)
           ELSE Resolved(c, "parse")
        /\ UNCHANGED <<Upstream, tokenCache, Topics, http, Side, Ext>>

\* variant of proxmoxEachMessage_get reading request.hostname?.toLowerCase(): a
\* missing hostname matches no host instead of throwing
proxmoxEachMessage_get_lenient ==
    LET c == ProxmoxGroup
    IN  /\ pc[c] = "call"
        /\ \E up \in ProxmoxAnswers :
             IF up.ok
             THEN Goto(c, "send", request[c],
                       Body("", [has |-> TRUE,
                                 val |-> \/ ~request[c].hostname.has
                                         \/ ~exists(up.names, request[c].hostname.val)],
                            NoSugg, UndefId, UndefId))
             ELSE Resolved(c, "engine")
        /\ UNCHANGED <<Upstream, tokenCache, Topics, http, Side, Ext>>

\* proxmox-service eachMessage: proxmoxApi.get settles, then the handler computes
\* exists; request.hostname.toLowerCase() throws when hostname is undefined
proxmoxEachMessage_get ==
    LET c == ProxmoxGroup
    IN  /\ pc[c] = "call"
        /\ \E up \in ProxmoxAnswers :
             IF up.ok /\ request[c].hostname.has
             THEN Goto(c, "send", request[c],
                       Body("", [has |-> TRUE,
                                 val |-> ~exists(up.names, request[c].hostname.val)],
                            NoSugg, UndefId, UndefId))
             ELSE Resolved(c, IF up.ok THEN "typeerror" ELSE "engine")
        /\ UNCHANGED <<Upstream, tokenCache, Topics, http, Side, Ext>>

\* variant of processIpRequest_parse in which one consumer serves the topics in
\* turn: an IP request is taken only when no hostname request is being handled
processIpRequest_parse_oneConsumer ==
    LET c == BridgeIp
    IN  /\ pc[c] = "idle" /\ offset[c] < Len(Subscribed(c))
        /\ pc[BridgeHostname] = "idle"
        /\ IF current(c).value.json /\ TruthyId(current(c).value.subnetId)
           THEN Goto(c, "call", current(c).value, NoDecision)
           ELSE Resolved(c, IF current(c).value.json THEN "invalid" ELSE "parse")
        /\ UNCHANGED <<Upstream, tokenCache, Topics, http, Side, Ext>>

\* processIpRequest up to its first await: parse and validate
processIpRequest_parse ==
    LET c == BridgeIp
    IN  /\ pc[c] = "idle" /\ offset[c] < Len(Subscribed(c))
        /\ IF current(c).value.json /\ TruthyId(current(c).value.subnetId)
           THEN Goto(c, "call", current(c).value, NoDecision)
           ELSE Resolved(c, IF current(c).value.json THEN "invalid" ELSE "parse")
        /\ UNCHANGED <<Upstream, tokenCache, Topics, http, Side, Ext>>

\* processIpRequest: axios.post to /ipam/check-ip (request.ip given) or to
\* /ipam/next-available settles.  The call carries no Authorization header
processIpRequest_post ==
    LET c == BridgeIp
        body == [subnetId |-> request[c].subnetId, ip |-> request[c].ip]
    IN  /\ pc[c] = "call"
        /\ \E reachable \in Outcomes, login \in LoginAnswers,
              up \in IF TruthyId(request[c].ip)
                     THEN SearchAnswers(request[c].ip.val)
                     ELSE FirstFreeAnswers(request[c].subnetId) :
             LET r == IF ~reachable
                      THEN [status |-> 0, data |-> ErrorBody(""), cache |-> tokenCache,
                            calls |-> <<>>]
                      ELSE IF TruthyId(request[c].ip)
                      THEN checkIp(NoHeader, body, tokenCache, staticToken, login, up)
                      ELSE nextAvailable(NoHeader, body, tokenCache, staticToken, login, up)
             IN  /\ tokenCache' = r.cache
                 /\ IF r.status >= 200 /\ r.status < 300
                    THEN Goto(c, "send", request[c], r.data)
                    ELSE Resolved(c, "engine")
        /\ UNCHANGED <<Upstream, Topics, http, Side, Ext>>

\* variant of ipamEachMessage_parse without the try: the SyntaxError of
\* JSON.parse escapes, the offset is not resolved and the message is delivered
\* again
ipamEachMessage_parse_throwing ==
    LET c == IpamGroup
    IN  /\ pc[c] = "idle" /\ offset[c] < Len(Subscribed(c))
        /\ IF current(c).value.json
           THEN Goto(c, "auth", current(c).value, NoDecision)
           ELSE UNCHANGED Bus
        /\ UNCHANGED <<Upstream, tokenCache, Topics, http, Side, Ext>>

\* ipam-service eachMessage up to its first await: parse, no validation
ipamEachMessage_parse ==
    LET c == IpamGroup
    IN  /\ pc[c] = "idle" /\ offset[c] < Len(Subscribed(c))
        /\ IF current(c).value.json
           THEN Goto(c, "auth", current(c).value, NoDecision)
           ELSE Resolved(c, "parse")
        /\ UNCHANGED <<Upstream, tokenCache, Topics, http, Side, Ext>>

\* ipam-service eachMessage: await authenticateIpam() settles
ipamEachMessage_auth ==
    LET c == IpamGroup
    IN  /\ pc[c] = "auth"
        /\ \E login \in LoginAnswers :
             LET a == authenticateIpam(tokenCache, staticToken, login)
             IN  /\ tokenCache' = a.cache
                 /\ IF a.ok
                    THEN Goto(c, "call", request[c], NoDecision)
                    ELSE Resolved(c, "engine")
        /\ UNCHANGED <<Upstream, Topics, http, Side, Ext>>

\* ipam-service eachMessage: phpIpamApi.get of subnets/<request.subnetId>/first_free
\* settles
ipamEachMessage_get ==
    LET c == IpamGroup
    IN  /\ pc[c] = "call"
        /\ \E free \in FirstFreeAnswers(request[c].subnetId) :
             IF free.ok
             THEN Goto(c, "send", request[c],
                       Body("", NoBool, NoSugg, free.data, UndefId))
             ELSE Resolved(c, "engine")
        /\ UNCHANGED <<Upstream, tokenCache, Topics, http, Side, Ext>>

\* variant of bridgeHostnameValue that copies suggestions without the `|| []`
bridgeHostnameValue_raw(data) ==
    [available |-> data.available, suggestions |-> data.suggestions]

\* the decision fields processHostnameRequest copies into its response value
bridgeHostnameValue(data) ==
    [available |-> data.available,
     suggestions |-> IF data.suggestions.has THEN data.suggestions
                     ELSE [has |-> TRUE, val |-> <<>>]]

\* variant of responseMessage whose requestId is read from the newest message of
\* the request topic instead of the handler's own request
responseMessage_latest(c) ==
    LET req  == request[c]
        data == response[c]
        last == Subscribed(c)[Len(Subscribed(c))].value
        head == [key |-> current(c).key, by |-> clientId(c), src |-> offset[c] + 1,
                 requestId |-> last.requestId]
    IN  IF c \in {BridgeHostname, ProxmoxGroup}
        THEN head @@ [hostname |-> req.hostname, available |-> data.available,
                      suggestions |-> NoSugg]
        ELSE head @@ [subnetId |-> req.subnetId, ip |-> data.ip,
                      available |-> NoBool]

\* variant of responseMessage that keys every response like the first message of
\* the request topic
responseMessage_firstKey(c) ==
    LET req  == request[c]
        data == response[c]
        head == [key |-> Subscribed(c)[1].key, by |-> clientId(c), src |-> offset[c] + 1,
                 requestId |-> req.requestId]
    IN  IF c \in {BridgeHostname, ProxmoxGroup}
        THEN head @@ [hostname |-> req.hostname, available |-> data.available,
                      suggestions |-> NoSugg]
        ELSE head @@ [subnetId |-> req.subnetId, ip |-> data.ip,
                      available |-> NoBool]

\* the value the handler of consumer c passes to producer.send, with the key of
\* the inbound message; by and src record the publishing client and the offset
\* of the request being answered
responseMessage(c) ==
    LET req  == request[c]
        data == response[c]
        head == [key |-> current(c).key, by |-> clientId(c), src |-> offset[c] + 1,
                 requestId |-> req.requestId]
    IN  CASE c = BridgeHostname ->
               head @@ [hostname |-> req.hostname] @@ bridgeHostnameValue(data)
          [] c = ProxmoxGroup ->
               head @@ [hostname |-> req.hostname, available |-> data.available,
                        suggestions |-> NoSugg]
          [] c = BridgeIp ->
               head @@ [subnetId |-> req.subnetId,
                        ip |-> IF TruthyId(req.ip) THEN req.ip ELSE data.ip,
                        available |-> IF data.available.has THEN data.available
                                      ELSE [has |-> TRUE, val |-> TRUE]]
          [] c = IpamGroup ->
               head @@ [subnetId |-> req.subnetId, ip |-> data.ip,
                        available |-> NoBool]

\* variant of producerSend in which a message may overtake the messages the
\* producer sent before it: it lands at the head of the topic
producerSend_overtaking(c) ==
    /\ pc[c] = "send"
    /\ \E accepted \in Outcomes :
         /\ IF c \in {BridgeHostname, ProxmoxGroup}
            THEN /\ hostnameResponses' =
                       IF accepted THEN <<responseMessage(c)>> \o hostnameResponses
                       ELSE hostnameResponses
                 /\ UNCHANGED ipResponses
            ELSE /\ ipResponses' =
                       IF accepted THEN <<responseMessage(c)>> \o ipResponses
                       ELSE ipResponses
                 /\ UNCHANGED hostnameResponses
         /\ Resolved(c, IF accepted THEN "processed" ELSE "publish")
    /\ UNCHANGED <<Upstream, tokenCache, hostnameRequests, ipRequests, http, Side, Ext>>

\* await producer.send settles for the handler of consumer c; accepted = FALSE:
\* the bus rejects the publish and the handler's catch logs it
producerSend(c) ==
    /\ pc[c] = "send"
    /\ \E accepted \in Outcomes :
         /\ IF c \in {BridgeHostname, ProxmoxGroup}
            THEN /\ hostnameResponses' =
                       IF accepted THEN Append(hostnameResponses, responseMessage(c))
                       ELSE hostnameResponses
                 /\ UNCHANGED ipResponses
            ELSE /\ ipResponses' =
                       IF accepted THEN Append(ipResponses, responseMessage(c))
                       ELSE ipResponses
                 /\ UNCHANGED hostnameResponses
         /\ Resolved(c, IF accepted THEN "processed" ELSE "publish")
    /\ UNCHANGED <<Upstream, tokenCache, hostnameRequests, ipRequests, http, Side, Ext>>

\* the ttl of the cached phpIPAM token elapses: cache.get returns undefined again
tokenExpires ==
    /\ tokenCache.has
    /\ tokenCache' = UndefId
    /\ UNCHANGED <<Upstream, Topics, pc, offset, request, response, http, log, Side, Ext>>

----------------------------------------------------------------------------
(* Specification of the message path *)

Init ==
    /\ vms = <<W3, W7, WX>>
    /\ firstFree = [s \in Subnets |-> IF s = "10" THEN Def("10.0.0.5") ELSE UndefId]
    /\ allocated = {"10.0.0.9"}
    /\ staticToken = UndefId
    /\ faulty = TRUE
    /\ tokenCache = UndefId
    /\ hostnameRequests = <<>>
    /\ hostnameResponses = <<>>
    /\ ipRequests = <<>>
    /\ ipResponses = <<>>
    /\ pc = [c \in Consumers |-> "idle"]
    /\ offset = [c \in Consumers |-> 0]
    /\ request = [c \in Consumers |-> NoRequest]
    /\ response = [c \in Consumers |-> NoDecision]
    /\ http = NoHttp
    /\ log = [c \in Consumers |-> <<>>]
    /\ prev = NoHttp
    /\ hits = 0
    /\ nodeCache = NoEntries
    /\ now = 0
    /\ ExtIdle

Next ==
    \/ publishHostnameRequest
    \/ publishIpRequest
    \/ processHostnameRequest_parse
    \/ processHostnameRequest_post
    \/ proxmoxEachMessage_parse
    \/ proxmoxEachMessage_get
    \/ processIpRequest_parse
    \/ processIpRequest_post
    \/ ipamEachMessage_parse
    \/ ipamEachMessage_auth
    \/ ipamEachMessage_get
    \/ \E c \in Consumers : producerSend(c)
    \/ tokenExpires

Spec == Init /\ [][Next]_vars

\* the same processes when no call fails by a fault: every service is reachable,
\* every upstream answers what its inventory holds and the bus accepts publishes
InitHealthy ==
    /\ vms = <<W3, W7, WX>>
    /\ firstFree = [s \in Subnets |-> IF s = "10" THEN Def("10.0.0.5") ELSE UndefId]
    /\ allocated = {"10.0.0.9"}
    /\ staticToken = UndefId
    /\ faulty = FALSE
    /\ tokenCache = UndefId
    /\ hostnameRequests = <<>>
    /\ hostnameResponses = <<>>
    /\ ipRequests = <<>>
    /\ ipResponses = <<>>
    /\ pc = [c \in Consumers |-> "idle"]
    /\ offset = [c \in Consumers |-> 0]
    /\ request = [c \in Consumers |-> NoRequest]
    /\ response = [c \in Consumers |-> NoDecision]
    /\ http = NoHttp
    /\ log = [c \in Consumers |-> <<>>]
    /\ prev = NoHttp
    /\ hits = 0
    /\ nodeCache = NoEntries
    /\ now = 0
    /\ ExtIdle

SpecHealthy == InitHealthy /\ [][Next]_vars

----------------------------------------------------------------------------
(* Specification of the HTTP path: POST /proxmox/check-hostname on inventories *)

W3u  == <<"W", "E", "B", "3">>
W7l  == <<"w", "e", "b", "7">>
WXu  == <<"W", "E", "B", "X">>
W8   == <<"w", "e", "b", "8">>
W10  == <<"w", "e", "b", "1", "0">>
DB   == <<"d", "b">>

HostnameInputs == { Undef, Def(<<>>), Def(W3), Def(W3u), Def(W7), Def(W7l),
                    Def(WX), Def(WXu), Def(W8), Def(W9), Def(W10), Def(DB1),
                    Def(Web) }
PrefixInputs   == { Undef, Def(<<>>), Def(Web), Def(WEBu), Def(DB) }
Headers        == { NoHeader, [has |-> TRUE, val |-> <<"Bearer">>],
                    [has |-> TRUE, val |-> <<"Bearer", "jwt">>] }

\* a client (the gateway) posts {hostname, prefix} to /proxmox/check-hostname
postCheckHostname ==
    /\ \E authorization \in Headers, hostname \in HostnameInputs,
          prefix \in PrefixInputs, up \in ProxmoxAnswers :
         LET body == [hostname |-> hostname, prefix |-> prefix]
             r    == checkHostname(authorization, body, up)
         IN  http' = [endpoint |-> "check-hostname", authorization |-> authorization,
                      body |-> body, status |-> r.status, data |-> r.data]
    /\ UNCHANGED <<Upstream, tokenCache, Topics, Bus, Side, Ext>>

InitHttp ==
    /\ vms \in Inventories
    /\ firstFree = [s \in Subnets |-> IF s = "10" THEN Def("10.0.0.5") ELSE UndefId]
    /\ allocated = {"10.0.0.9"}
    /\ staticToken = UndefId
    /\ faulty = TRUE
    /\ tokenCache = UndefId
    /\ hostnameRequests = <<>>
    /\ hostnameResponses = <<>>
    /\ ipRequests = <<>>
    /\ ipResponses = <<>>
    /\ pc = [c \in Consumers |-> "idle"]
    /\ offset = [c \in Consumers |-> 0]
    /\ request = [c \in Consumers |-> NoRequest]
    /\ response = [c \in Consumers |-> NoDecision]
    /\ http = NoHttp
    /\ log = [c \in Consumers |-> <<>>]
    /\ prev = NoHttp
    /\ hits = 0
    /\ nodeCache = NoEntries
    /\ now = 0
    /\ ExtIdle

NextHttp == postCheckHostname

SpecHttp == InitHttp /\ [][NextHttp]_vars

----------------------------------------------------------------------------
(* The api-gateway routes, and the specification of the HTTP API: the engine    *)
(* endpoints and GET /auth/user, called at the gateway or at the service itself *)

\* variant of isAuthenticated that lets every request through
isAuthenticated_open(authorization) == TRUE

\* isAuthenticated of the gateway routers (and the inline check of the auth
\* routes): TRUE when the request goes on, FALSE when it is answered 401
isAuthenticated(authorization) ==
    LET token == bearerToken(authorization)
    IN  token.has /\ token.val # ""

\* headers: { Authorization: `Bearer ${token}` } of the request the gateway sends
forwardedHeader(authorization) ==
    LET token == bearerToken(authorization)
    IN  Def(<<"Bearer", IF token.has THEN token.val ELSE "undefined">>)

\* variant of gatewayRoute whose catch does not return after forwarding the
\* service's error: next(error) runs too and the error middleware answers again
gatewayRoute_fallThrough(authorization, valid, backend) ==
    IF ~isAuthenticated(authorization)
    THEN [status |-> 401, data |-> ErrorBody("Unauthorized"), forwards |-> <<>>,
          replies |-> 1]
    ELSE IF ~valid
    THEN [status |-> 400, data |-> ErrorBody("Bad Request"), forwards |-> <<>>,
          replies |-> 1]
    ELSE IF backend.status = 0
    THEN [status |-> 500, data |-> ErrorBody("Internal Server Error"),
          forwards |-> <<forwardedHeader(authorization)>>, replies |-> 1]
    ELSE IF backend.status >= 200 /\ backend.status < 300
    THEN [status |-> 200, data |-> backend.data,
          forwards |-> <<forwardedHeader(authorization)>>, replies |-> 1]
    ELSE [status |-> backend.status, data |-> backend.data,
          forwards |-> <<forwardedHeader(authorization)>>, replies |-> 2]

\* a route of the gateway: isAuthenticated, validation of the required field
\* (valid), axios call to the service, whose answer is backend (status 0: no
\* response received).  forwards lists the Authorization headers of the requests
\* sent to the service, replies counts the responses sent to the client
gatewayRoute(authorization, valid, backend) ==
    IF ~isAuthenticated(authorization)
    THEN [status |-> 401, data |-> ErrorBody("Unauthorized"), forwards |-> <<>>,
          replies |-> 1]
    ELSE IF ~valid
    THEN [status |-> 400, data |-> ErrorBody("Bad Request"), forwards |-> <<>>,
          replies |-> 1]
    ELSE IF backend.status = 0
    THEN [status |-> 500, data |-> ErrorBody("Internal Server Error"),
          forwards |-> <<forwardedHeader(authorization)>>, replies |-> 1]
    ELSE IF backend.status >= 200 /\ backend.status < 300
    THEN [status |-> 200, data |-> backend.data,
          forwards |-> <<forwardedHeader(authorization)>>, replies |-> 1]
    ELSE [status |-> backend.status, data |-> backend.data,
          forwards |-> <<forwardedHeader(authorization)>>, replies |-> 1]

\* GET /auth/user of the auth-service; valid: jwt.verify accepts the token
authUser(authorization, valid) ==
    IF ~TruthyId(bearerToken(authorization)) \/ ~valid
    THEN [status |-> 401, data |-> ErrorBody("Unauthorized"), calls |-> <<>>]
    ELSE [status |-> 200, data |-> ErrorBody(""), calls |-> <<>>]

Vias == {"gateway", "service"}

\* what a client gets from an endpoint called at the gateway or at the service
\* itself.  direct is the answer of the service's handler to the client's own
\* request; backend is its answer to the request the gateway sends (status 0:
\* the gateway's request fails in transport).  reached: the service's handler ran
served(via, authorization, valid, direct, backend) ==
    IF via = "service"
    THEN [status |-> direct.status, data |-> direct.data, forwards |-> <<>>,
          replies |-> 1, calls |-> direct.calls, reached |-> TRUE]
    ELSE LET g == gatewayRoute(authorization, valid, backend)
         IN  [status |-> g.status, data |-> g.data, forwards |-> g.forwards,
              replies |-> g.replies,
              calls |-> IF g.forwards # <<>> THEN backend.calls ELSE <<>>,
              reached |-> g.forwards # <<>> /\ backend.status # 0]

\* the answer the gateway receives from the service
received(reachable, answer) == IF reachable THEN answer ELSE NoResponse

\* the transport outcomes of a call through via
Reachable(via) == IF via = "service" THEN {TRUE} ELSE Outcomes

\* the header the service's handler sees
serviceHeader(via, authorization) ==
    IF via = "service" THEN authorization ELSE forwardedHeader(authorization)

\* the upstream answers a call with a 401-class status (the token it was given
\* is no longer accepted); axios throws
RejectedAnswers(nodata) ==
    IF faulty THEN { [ok |-> FALSE, kind |-> "unauthorized", data |-> nodata] } ELSE {}

\* the answer the upstream gave to the request named call, if the handler
\* issued it
NoAnswer == [ok |-> FALSE, kind |-> "none"]
consulted(calls, call, answer) ==
    IF \E i \in 1..Len(calls) : calls[i] = call THEN answer ELSE NoAnswer

\* the decision of an exchange that was answered 200
Decision(e) ==
    IF e.endpoint # "none" /\ e.status = 200
    THEN [endpoint |-> e.endpoint, body |-> e.body, data |-> e.data]
    ELSE prev

\* the exchange e completes: it becomes the last exchange
Exchange(e) ==
    /\ http' = e
    /\ prev' = Decision(http)

\* a client posts {hostname, prefix} to check-hostname
requestCheckHostname ==
    /\ \E via \in Vias, authorization \in Headers,
          hostname \in {Undef, Def(W7), Def(W9)}, prefix \in {Undef, Def(Web)},
          up \in ProxmoxAnswers :
         \E reachable \in Reachable(via) :
            LET body == [hostname |-> hostname, prefix |-> prefix]
                Service(h) == checkHostname(h, body, up)
                e == served(via, authorization, Truthy(hostname),
                            Service(authorization),
                            received(reachable, Service(forwardedHeader(authorization))))
            IN  Exchange([endpoint |-> "check-hostname", via |-> via,
                          authorization |-> authorization, body |-> body,
                          answers |-> [login |-> NoAnswer,
                                       data |-> consulted(e.calls, "cluster/resources",
                                                          [ok |-> up.ok,
                                                           kind |-> IF up.ok THEN "ok"
                                                                    ELSE "failed"])]]
                         @@ e)
    /\ UNCHANGED <<Upstream, tokenCache, Topics, Bus, Ext, hits, nodeCache, now>>

\* a client posts {ip, subnetId} to check-ip
requestCheckIp ==
    /\ \E via \in Vias, authorization \in Headers,
          subnetId \in {UndefId} \cup {Def(n) : n \in Subnets},
          ip \in {UndefId, Def("10.0.0.5"), Def("10.0.0.9")},
          login \in LoginAnswers :
         \E reachable \in Reachable(via),
            search \in SearchAnswers(ip.val) \cup RejectedAnswers(Undef) :
            LET body == [subnetId |-> subnetId, ip |-> ip]
                Service(h) == checkIp(h, body, tokenCache, staticToken, login, search)
                e == served(via, authorization, TruthyId(subnetId),
                            Service(authorization),
                            received(reachable, Service(forwardedHeader(authorization))))
            IN  /\ Exchange([endpoint |-> "check-ip", via |-> via,
                             authorization |-> authorization, body |-> body,
                             answers |-> [login |-> consulted(e.calls, "user", login),
                                          data |-> consulted(e.calls, "addresses/search",
                                                             search)]]
                            @@ e)
                /\ tokenCache' = IF e.reached
                                 THEN Service(serviceHeader(via, authorization)).cache
                                 ELSE tokenCache
    /\ UNCHANGED <<Upstream, Topics, Bus, Ext, hits, nodeCache, now>>

\* variant of requestNextAvailable in which the service reserves the address it
\* returns: the upstream marks it allocated and moves on to the next free one
requestNextAvailable_reserving ==
    /\ \E via \in Vias, authorization \in Headers,
          subnetId \in {UndefId} \cup {Def(n) : n \in Subnets},
          login \in LoginAnswers :
         \E reachable \in Reachable(via),
            free \in FirstFreeAnswers(subnetId) \cup RejectedAnswers(UndefId) :
            LET body == [subnetId |-> subnetId]
                Service(h) == nextAvailable(h, body, tokenCache, staticToken, login, free)
                e == served(via, authorization, TruthyId(subnetId),
                            Service(authorization),
                            received(reachable, Service(forwardedHeader(authorization))))
                rest == Addresses \ (allocated \cup {e.data.ip.val})
            IN  /\ Exchange([endpoint |-> "next-available", via |-> via,
                             authorization |-> authorization, body |-> body,
                             answers |-> [login |-> consulted(e.calls, "user", login),
                                          data |-> consulted(e.calls, "first_free", free)]]
                            @@ e)
                /\ tokenCache' = IF e.reached
                                 THEN Service(serviceHeader(via, authorization)).cache
                                 ELSE tokenCache
                /\ IF e.status = 200 /\ subnetId.val \in Subnets
                   THEN /\ allocated' = allocated \cup {e.data.ip.val}
                        /\ firstFree' = [firstFree EXCEPT ![subnetId.val] =
                                           IF rest = {} THEN UndefId
                                           ELSE Def(CHOOSE a \in rest : TRUE)]
                   ELSE UNCHANGED <<allocated, firstFree>>
    /\ UNCHANGED <<vms, staticToken, faulty, Topics, Bus, Ext, hits, nodeCache, now>>

\* a client posts {subnetId} to next-available
requestNextAvailable ==
    /\ \E via \in Vias, authorization \in Headers,
          subnetId \in {UndefId} \cup {Def(n) : n \in Subnets},
          login \in LoginAnswers :
         \E reachable \in Reachable(via),
            free \in FirstFreeAnswers(subnetId) \cup RejectedAnswers(UndefId) :
            LET body == [subnetId |-> subnetId]
                Service(h) == nextAvailable(h, body, tokenCache, staticToken, login, free)
                e == served(via, authorization, TruthyId(subnetId),
                            Service(authorization),
                            received(reachable, Service(forwardedHeader(authorization))))
            IN  /\ Exchange([endpoint |-> "next-available", via |-> via,
                             authorization |-> authorization, body |-> body,
                             answers |-> [login |-> consulted(e.calls, "user", login),
                                          data |-> consulted(e.calls, "first_free", free)]]
                            @@ e)
                /\ tokenCache' = IF e.reached
                                 THEN Service(serviceHeader(via, authorization)).cache
                                 ELSE tokenCache
    /\ UNCHANGED <<Upstream, Topics, Bus, Ext, hits, nodeCache, now>>

\* a client asks for the current user: GET /api/auth/user at the gateway, or
\* GET /auth/user at the auth-service
requestUser ==
    /\ \E via \in Vias, authorization \in Headers, valid \in BOOLEAN :
         \E reachable \in Reachable(via) :
            LET Service(h) == authUser(h, valid)
                e == served(via, authorization, TRUE,
                            Service(authorization),
                            received(reachable, Service(forwardedHeader(authorization))))
            IN  Exchange([endpoint |-> "user", via |-> via,
                          authorization |-> authorization, body |-> [valid |-> valid],
                          answers |-> [login |-> NoAnswer, data |-> NoAnswer]]
                         @@ e)
    /\ UNCHANGED <<Upstream, tokenCache, Topics, Bus, Ext, hits, nodeCache, now>>

InitApi ==
    /\ vms = <<W3, W7, WX>>
    /\ firstFree = [s \in Subnets |-> IF s = "10" THEN Def("10.0.0.5") ELSE UndefId]
    /\ allocated = {"10.0.0.9"}
    /\ staticToken = UndefId
    /\ faulty = TRUE
    /\ tokenCache = UndefId
    /\ hostnameRequests = <<>>
    /\ hostnameResponses = <<>>
    /\ ipRequests = <<>>
    /\ ipResponses = <<>>
    /\ pc = [c \in Consumers |-> "idle"]
    /\ offset = [c \in Consumers |-> 0]
    /\ request = [c \in Consumers |-> NoRequest]
    /\ response = [c \in Consumers |-> NoDecision]
    /\ http = NoHttp
    /\ log = [c \in Consumers |-> <<>>]
    /\ prev = NoHttp
    /\ hits = 0
    /\ nodeCache = NoEntries
    /\ now = 0
    /\ ExtIdle

NextApi ==
    \/ requestCheckHostname
    \/ requestCheckIp
    \/ requestNextAvailable
    \/ requestUser
    \/ tokenExpires

SpecApi == InitApi /\ [][NextApi]_vars

----------------------------------------------------------------------------
(* The rate limiter and GET /health: one Express app (each service and the     *)
(* gateway configure it alike) and the requests of one client address          *)

RateLimitMax == 100     \* max: requests per window and client address

\* rateLimit({windowMs, max}), registered with app.use(limiter) before every
\* route: the request is counted, and refused once the count exceeds max.  The
\* count saturates above max, where every request is refused alike
limiter(count) ==
    [allowed |-> count + 1 <= RateLimitMax,
     count   |-> IF count > RateLimitMax THEN count ELSE count + 1]

\* app.get('/health'), behind the limiter; it reads no header
health(authorization, count) ==
    IF limiter(count).allowed
    THEN [status |-> 200, answer |-> "ok"]
    ELSE [status |-> 429, answer |-> "Too many requests"]

\* a client requests GET /health
getHealth ==
    /\ \E authorization \in Headers :
         http' = [endpoint |-> "health", authorization |-> authorization,
                  before |-> hits] @@ health(authorization, hits)
    /\ hits' = limiter(hits).count
    /\ UNCHANGED <<Upstream, tokenCache, Topics, Bus, Ext, prev, nodeCache, now>>

\* a client requests any other route of the app
getOther ==
    /\ \E authorization \in Headers :
         http' = [endpoint |-> "other", authorization |-> authorization,
                  before |-> hits, allowed |-> limiter(hits).allowed]
    /\ hits' = limiter(hits).count
    /\ UNCHANGED <<Upstream, tokenCache, Topics, Bus, Ext, prev, nodeCache, now>>

\* windowMs elapses: the limiter starts a new window
windowExpires ==
    /\ hits > 0
    /\ hits' = 0
    /\ UNCHANGED <<Upstream, tokenCache, Topics, Bus, Ext, http, prev, nodeCache, now>>

InitHealth ==
    /\ vms = <<W3, W7, WX>>
    /\ firstFree = [s \in Subnets |-> IF s = "10" THEN Def("10.0.0.5") ELSE UndefId]
    /\ allocated = {"10.0.0.9"}
    /\ staticToken = UndefId
    /\ faulty = TRUE
    /\ tokenCache = UndefId
    /\ hostnameRequests = <<>>
    /\ hostnameResponses = <<>>
    /\ ipRequests = <<>>
    /\ ipResponses = <<>>
    /\ pc = [c \in Consumers |-> "idle"]
    /\ offset = [c \in Consumers |-> 0]
    /\ request = [c \in Consumers |-> NoRequest]
    /\ response = [c \in Consumers |-> NoDecision]
    /\ http = NoHttp
    /\ log = [c \in Consumers |-> <<>>]
    /\ prev = NoHttp
    /\ hits = 0
    /\ nodeCache = NoEntries
    /\ now = 0
    /\ ExtIdle

NextHealth ==
    \/ getHealth
    \/ getOther
    \/ windowExpires

SpecHealth == InitHealth /\ [][NextHealth]_vars

----------------------------------------------------------------------------
(* The result cache of proxmox-service and GET /proxmox/hosts.  The cache is   *)
(* the node-cache package, modelled by the contract of the Result Cache: an    *)
(* entry expires ttl seconds after its insertion                               *)

StdTTL == 300           \* stdTTL: seconds an entry lives when set without a ttl

\* the entry can still be served at instant t
live(entry, t) == entry.has /\ t < entry.t

\* cache.get(key) at instant t
cacheGet(entries, key, t) ==
    IF live(entries[key], t) THEN Def(entries[key].v) ELSE Undef

\* variant of cacheAfterGet in which a hit renews the entry's ttl
cacheAfterGet_touch(entries, key, t) ==
    IF live(entries[key], t)
    THEN [entries EXCEPT ![key].t = t + StdTTL]
    ELSE [entries EXCEPT ![key] = NoEntry]

\* the entries after cache.get(key) at instant t: an expired entry is deleted
cacheAfterGet(entries, key, t) ==
    IF live(entries[key], t) THEN entries
    ELSE [entries EXCEPT ![key] = NoEntry]

\* cache.set(key, v) at instant t, with the default ttl
cacheSet(entries, key, v, t) ==
    [entries EXCEPT ![key] = [has |-> TRUE, v |-> v, set |-> t, t |-> t + StdTTL]]

\* GET /proxmox/hosts at instant t; upstream = [ok, names] is the answer of
\* proxmoxApi.get('/cluster/resources?type=vm').  An array, even an empty one,
\* is truthy in `if (cachedHosts)`
getHosts(authorization, entries, t, upstream) ==
    LET cacheKey    == "proxmox_hosts"
        cachedHosts == cacheGet(entries, cacheKey, t)
        after       == cacheAfterGet(entries, cacheKey, t)
    IN  IF ~verifyToken(authorization)
        THEN [status |-> 401, hosts |-> Undef, fromCache |-> FALSE,
              entries |-> entries, calls |-> <<>>]
        ELSE IF cachedHosts.has
        THEN [status |-> 200, hosts |-> cachedHosts, fromCache |-> TRUE,
              entries |-> after, calls |-> <<>>]
        ELSE IF ~upstream.ok
        THEN [status |-> 500, hosts |-> Undef, fromCache |-> FALSE,
              entries |-> after, calls |-> <<"cluster/resources">>]
        ELSE [status |-> 200, hosts |-> Def(upstream.names), fromCache |-> FALSE,
              entries |-> cacheSet(after, cacheKey, upstream.names, t),
              calls |-> <<"cluster/resources">>]

\* a client requests GET /proxmox/hosts
requestHosts ==
    /\ \E authorization \in Headers, up \in ProxmoxAnswers :
         LET r == getHosts(authorization, nodeCache, now, up)
         IN  /\ http' = [endpoint |-> "hosts", authorization |-> authorization,
                         at |-> now, entry |-> nodeCache["proxmox_hosts"],
                         status |-> r.status, hosts |-> r.hosts,
                         fromCache |-> r.fromCache, calls |-> r.calls]
             /\ nodeCache' = r.entries
    /\ UNCHANGED <<Upstream, tokenCache, Topics, Bus, Ext, prev, hits, now>>

\* the timer of checkperiod fires: the expired entries are deleted
sweep ==
    /\ \E k \in CacheKeys : nodeCache[k].has /\ ~live(nodeCache[k], now)
    /\ nodeCache' = [k \in CacheKeys |->
                       IF live(nodeCache[k], now) THEN nodeCache[k] ELSE NoEntry]
    /\ UNCHANGED <<Upstream, tokenCache, Topics, Bus, Ext, http, prev, hits, now>>

\* time passes
tick ==
    /\ now + TickStep <= MaxTime
    /\ now' = now + TickStep
    /\ UNCHANGED <<Upstream, tokenCache, Topics, Bus, Ext, http, prev, hits, nodeCache>>

\* a host is added to or removed from the ProxMox inventory
inventoryChanges ==
    /\ vms' \in {<<W3, W7, WX>>, <<W7, W3>>} \ {vms}
    /\ UNCHANGED <<firstFree, allocated, staticToken, faulty, tokenCache, Topics, Bus, Ext,
                   http, prev, hits, nodeCache, now>>

InitCache ==
    /\ vms = <<W3, W7, WX>>
    /\ firstFree = [s \in Subnets |-> IF s = "10" THEN Def("10.0.0.5") ELSE UndefId]
    /\ allocated = {"10.0.0.9"}
    /\ staticToken = UndefId
    /\ faulty = TRUE
    /\ tokenCache = UndefId
    /\ hostnameRequests = <<>>
    /\ hostnameResponses = <<>>
    /\ ipRequests = <<>>
    /\ ipResponses = <<>>
    /\ pc = [c \in Consumers |-> "idle"]
    /\ offset = [c \in Consumers |-> 0]
    /\ request = [c \in Consumers |-> NoRequest]
    /\ response = [c \in Consumers |-> NoDecision]
    /\ http = NoHttp
    /\ log = [c \in Consumers |-> <<>>]
    /\ prev = NoHttp
    /\ hits = 0
    /\ nodeCache = NoEntries
    /\ now = 0
    /\ ExtIdle

NextCache ==
    \/ requestHosts
    \/ sweep
    \/ tick
    \/ inventoryChanges

SpecCache == InitCache /\ [][NextCache]_vars

\* a client posts {hostname} to /proxmox/check-hostname at instant now.  The
\* handler calls proxmoxApi.get itself: it neither reads nor writes the cache
postCheckHostnameNow ==
    /\ \E authorization \in Headers, hostname \in {Def(W7), Def(W9)},
          up \in ProxmoxAnswers :
         LET body == [hostname |-> hostname, prefix |-> Undef]
             r    == checkHostname(authorization, body, up)
         IN  http' = [endpoint |-> "check-hostname", authorization |-> authorization,
                      body |-> body, at |-> now, entry |-> nodeCache["proxmox_hosts"],
                      status |-> r.status, data |-> r.data, calls |-> r.calls]
    /\ prev' = http
    /\ UNCHANGED <<Upstream, tokenCache, Topics, Bus, Ext, hits, nodeCache, now>>

NextCacheCheck ==
    \/ NextCache
    \/ postCheckHostnameNow

SpecCacheCheck == InitCache /\ [][NextCacheCheck]_vars

----------------------------------------------------------------------------
(* ipam-service: its cache, authenticateIpam and GET /ipam/subnets.  Several    *)
(* handlers are in flight at a time and interleave at their awaits; between    *)
(* two awaits a handler runs alone.  PHPIPAM_API_TOKEN is not configured: the  *)
(* token comes from the username/password login.  A token carries the instant  *)
(* at which the upstream issued it                                             *)

TokenTTL      == 21000  \* ttl given to cache.set for the token, in seconds
TokenValidity == 21600  \* the upstream honours a token for 6 hours from its issue
TokenTick     == 7000
MaxTokenTime  == 28000

\* cache.get(key) at instant t: the value stored, undefined when there is none
ipamGet(entries, key, t) ==
    IF live(entries[key], t) THEN entries[key].v ELSE Undef

\* the entries after cache.get(key) at instant t: an expired entry is deleted
ipamAfterGet(entries, key, t) ==
    IF entries[key].has /\ ~live(entries[key], t)
    THEN [entries EXCEPT ![key] = NoIpamEntry]
    ELSE entries

\* cache.set(key, v, ttl) at instant t: the whole entry is replaced
ipamSet(entries, key, v, ttl, t) ==
    [entries EXCEPT ![key] = [has |-> TRUE, v |-> v, set |-> t, t |-> t + ttl]]

\* variant of cacheToken that keeps the token for a day
cacheToken_day(entries, token, t) ==
    ipamSet(entries, "phpipam_token", Def(token), 4 * TokenValidity, t)

\* cache.set(tokenKey, token, 21000)
cacheToken(entries, token, t) ==
    ipamSet(entries, "phpipam_token", Def(token), TokenTTL, t)

\* answers of GET subnets/: a list of subnet ids, no data field, or a failure on
\* which axios throws
SubnetsAnswers ==
    { [ok |-> TRUE, data |-> Def(<<"10">>)], [ok |-> TRUE, data |-> Def(<<"10", "20">>)],
      [ok |-> TRUE, data |-> Undef], [ok |-> FALSE, data |-> Undef] }

\* handler h answers: res.status(status).json(data).  stored: the cache held a
\* list that had not expired when the handler read it; over: what the cache held
\* when the handler wrote to it
respond(h, stored, status, data, fromCache, calls, over) ==
    /\ http' = [endpoint |-> "subnets", stored |-> stored, status |-> status,
                data |-> data, fromCache |-> fromCache, calls |-> calls,
                over |-> over]
    /\ handlers' = [handlers EXCEPT ![h] = Idle]

\* variant of getSubnets_start that logs in with username and password whenever
\* the cache holds no token, whether PHPIPAM_API_TOKEN is configured or not
getSubnets_start_alwaysLogin(h) ==
    LET cacheKey      == "ipam_subnets"
        cachedSubnets == ipamGet(ipamCache, cacheKey, now)
        stored        == live(ipamCache[cacheKey], now)
        token         == ipamGet(ipamCache, "phpipam_token", now)
        after         == ipamAfterGet(ipamAfterGet(ipamCache, cacheKey, now),
                                      "phpipam_token", now)
    IN  /\ handlers[h].pc = "idle"
        /\ IF cachedSubnets.has
           THEN /\ respond(h, stored, 200, cachedSubnets, TRUE, <<>>, NoIpamEntry)
                /\ UNCHANGED <<ipamCache, header, sent>>
           ELSE /\ UNCHANGED http
                /\ IF token.has
                   THEN /\ ipamCache' = after
                        /\ header' = [has |-> TRUE, val |-> token.val,
                                      issued |-> ipamCache["phpipam_token"].set]
                        /\ sent' = header' @@ [at |-> now]
                        /\ handlers' = [handlers EXCEPT ![h] =
                                          [pc |-> "get", stored |-> stored,
                                           calls |-> <<"subnets">>]]
                   ELSE IF FALSE
                   THEN /\ ipamCache' = ipamSet(after, "phpipam_token",
                                                Def(<<staticToken.val>>), StdTTL, now)
                        /\ header' = [has |-> TRUE, val |-> <<staticToken.val>>,
                                      issued |-> now]
                        /\ sent' = header' @@ [at |-> now]
                        /\ handlers' = [handlers EXCEPT ![h] =
                                          [pc |-> "get", stored |-> stored,
                                           calls |-> <<"subnets">>]]
                   ELSE /\ ipamCache' = after
                        /\ handlers' = [handlers EXCEPT ![h] =
                                          [pc |-> "login", stored |-> stored,
                                           calls |-> <<"user">>]]
                        /\ UNCHANGED <<header, sent>>
        /\ UNCHANGED <<Upstream, tokenCache, Topics, Bus, Side, Activity, crashes, authReq, ui,
                       phase>>

\* GET /ipam/subnets up to its first await: the cached list is returned; else
\* authenticateIpam takes the cached token, or PHPIPAM_API_TOKEN when it is
\* configured (stored with the default ttl; the record keeps the instant at
\* which it was put in the header), and phpIpamApi.get is sent; else the login
\* request is sent
getSubnets_start(h) ==
    LET cacheKey      == "ipam_subnets"
        cachedSubnets == ipamGet(ipamCache, cacheKey, now)
        stored        == live(ipamCache[cacheKey], now)
        token         == ipamGet(ipamCache, "phpipam_token", now)
        after         == ipamAfterGet(ipamAfterGet(ipamCache, cacheKey, now),
                                      "phpipam_token", now)
    IN  /\ handlers[h].pc = "idle"
        /\ IF cachedSubnets.has
           THEN /\ respond(h, stored, 200, cachedSubnets, TRUE, <<>>, NoIpamEntry)
                /\ UNCHANGED <<ipamCache, header, sent>>
           ELSE /\ UNCHANGED http
                /\ IF token.has
                   THEN /\ ipamCache' = after
                        /\ header' = [has |-> TRUE, val |-> token.val,
                                      issued |-> ipamCache["phpipam_token"].set]
                        /\ sent' = header' @@ [at |-> now]
                        /\ handlers' = [handlers EXCEPT ![h] =
                                          [pc |-> "get", stored |-> stored,
                                           calls |-> <<"subnets">>]]
                   ELSE IF TruthyId(staticToken)
                   THEN /\ ipamCache' = ipamSet(after, "phpipam_token",
                                                Def(<<staticToken.val>>), StdTTL, now)
                        /\ header' = [has |-> TRUE, val |-> <<staticToken.val>>,
                                      issued |-> now]
                        /\ sent' = header' @@ [at |-> now]
                        /\ handlers' = [handlers EXCEPT ![h] =
                                          [pc |-> "get", stored |-> stored,
                                           calls |-> <<"subnets">>]]
                   ELSE /\ ipamCache' = after
                        /\ handlers' = [handlers EXCEPT ![h] =
                                          [pc |-> "login", stored |-> stored,
                                           calls |-> <<"user">>]]
                        /\ UNCHANGED <<header, sent>>
        /\ UNCHANGED <<Upstream, tokenCache, Topics, Bus, Side, Activity, crashes, authReq, ui,
                       phase>>

\* the login request of handler h settles: the token issued now becomes the
\* default header and is cached, and phpIpamApi.get is sent with that header; a
\* failed login is rethrown and the handler's catch answers 500
getSubnets_login(h) ==
    /\ handlers[h].pc = "login"
    /\ \E login \in LoginAnswers :
         IF login.ok
         THEN /\ header' = [has |-> TRUE, val |-> <<login.token>>, issued |-> now]
              /\ ipamCache' = cacheToken(ipamCache, <<login.token>>, now)
              /\ sent' = header' @@ [at |-> now]
              /\ handlers' = [handlers EXCEPT ![h].pc = "get",
                                              ![h].calls = Append(@, "subnets")]
              /\ UNCHANGED http
         ELSE /\ respond(h, handlers[h].stored, 500, Undef, FALSE, handlers[h].calls,
                         NoIpamEntry)
              /\ UNCHANGED <<ipamCache, header, sent>>
    /\ UNCHANGED <<Upstream, tokenCache, Topics, Bus, Side, Activity, crashes, authReq, ui, phase>>

\* variant of getSubnets_get that stores the list only when the key is absent
getSubnets_get_ifAbsent(h) ==
    /\ handlers[h].pc = "get"
    /\ \E up \in SubnetsAnswers :
         IF up.ok
         THEN /\ ipamCache' = IF live(ipamCache["ipam_subnets"], now) THEN ipamCache
                              ELSE ipamSet(ipamCache, "ipam_subnets", up.data, StdTTL, now)
              /\ respond(h, handlers[h].stored, 200, up.data, FALSE, handlers[h].calls,
                         ipamCache["ipam_subnets"])
         ELSE /\ respond(h, handlers[h].stored, 500, Undef, FALSE, handlers[h].calls,
                         NoIpamEntry)
              /\ UNCHANGED ipamCache
    /\ UNCHANGED <<Upstream, tokenCache, Topics, Bus, Side, Activity, crashes, authReq, ui, phase,
                   header, sent>>

\* variant of getSubnets_get that stores an empty list when the upstream fails
getSubnets_get_cachingFailure(h) ==
    /\ handlers[h].pc = "get"
    /\ \E up \in SubnetsAnswers :
         IF up.ok
         THEN /\ ipamCache' = ipamSet(ipamCache, "ipam_subnets", up.data, StdTTL, now)
              /\ respond(h, handlers[h].stored, 200, up.data, FALSE, handlers[h].calls,
                         ipamCache["ipam_subnets"])
         ELSE /\ respond(h, handlers[h].stored, 500, Undef, FALSE, handlers[h].calls,
                         NoIpamEntry)
              /\ ipamCache' = ipamSet(ipamCache, "ipam_subnets", Def(<<>>), StdTTL, now)
    /\ UNCHANGED <<Upstream, tokenCache, Topics, Bus, Side, Activity, crashes, authReq, ui, phase,
                   header, sent>>

\* phpIpamApi.get of subnets/ settles for handler h: response.data.data is
\* stored with the default ttl and returned; a failure is answered 500
getSubnets_get(h) ==
    /\ handlers[h].pc = "get"
    /\ \E up \in SubnetsAnswers :
         IF up.ok
         THEN /\ ipamCache' = ipamSet(ipamCache, "ipam_subnets", up.data, StdTTL, now)
              /\ respond(h, handlers[h].stored, 200, up.data, FALSE, handlers[h].calls,
                         ipamCache["ipam_subnets"])
         ELSE /\ respond(h, handlers[h].stored, 500, Undef, FALSE, handlers[h].calls,
                         NoIpamEntry)
              /\ UNCHANGED ipamCache
    /\ UNCHANGED <<Upstream, tokenCache, Topics, Bus, Side, Activity, crashes, authReq, ui, phase,
                   header, sent>>

\* the timer of checkperiod fires: the expired entries are deleted
ipamSweep ==
    /\ \E k \in IpamKeys : ipamCache[k].has /\ ~live(ipamCache[k], now)
    /\ ipamCache' = [k \in IpamKeys |->
                       IF live(ipamCache[k], now) THEN ipamCache[k] ELSE NoIpamEntry]
    /\ UNCHANGED <<Upstream, tokenCache, Topics, Bus, http, Side, Activity, crashes, authReq, ui,
                   phase, header, handlers, sent>>

\* time passes
hoursPass ==
    /\ now + TokenTick <= MaxTokenTime
    /\ now' = now + TokenTick
    /\ UNCHANGED <<Upstream, tokenCache, Topics, Bus, http, prev, hits, nodeCache,
                   Ext>>

InitIpam ==
    /\ InitCache

NextIpam ==
    \/ \E h \in Handlers : getSubnets_start(h)
    \/ \E h \in Handlers : getSubnets_login(h)
    \/ \E h \in Handlers : getSubnets_get(h)
    \/ ipamSweep
    \/ hoursPass

SpecIpam == InitIpam /\ [][NextIpam]_vars

\* the same service started with or without PHPIPAM_API_TOKEN in its environment
InitStatic ==
    /\ vms = <<W3, W7, WX>>
    /\ firstFree = [s \in Subnets |-> IF s = "10" THEN Def("10.0.0.5") ELSE UndefId]
    /\ allocated = {"10.0.0.9"}
    /\ staticToken \in {UndefId, Def("static")}
    /\ faulty = TRUE
    /\ tokenCache = UndefId
    /\ hostnameRequests = <<>>
    /\ hostnameResponses = <<>>
    /\ ipRequests = <<>>
    /\ ipResponses = <<>>
    /\ pc = [c \in Consumers |-> "idle"]
    /\ offset = [c \in Consumers |-> 0]
    /\ request = [c \in Consumers |-> NoRequest]
    /\ response = [c \in Consumers |-> NoDecision]
    /\ http = NoHttp
    /\ log = [c \in Consumers |-> <<>>]
    /\ prev = NoHttp
    /\ hits = 0
    /\ nodeCache = NoEntries
    /\ now = 0
    /\ ExtIdle

NextStatic ==
    \/ \E h \in Handlers : getSubnets_start(h)
    \/ \E h \in Handlers : getSubnets_login(h)
    \/ \E h \in Handlers : getSubnets_get(h)
    \/ ipamSweep
    \/ hoursPass

SpecStatic == InitStatic /\ [][NextStatic]_vars

----------------------------------------------------------------------------
(* The bridge process (kafka-consumer): three consumers, one per topic, each   *)
(* in its own consumer group, and the relay of the activity events             *)

MaxActivity == 2

\* payloads placed on user-activity: the event auth-service publishes on a login,
\* and a value JSON.parse rejects (json = FALSE)
ActivityPayloads ==
    { [json |-> TRUE, action |-> Def("login"), userId |-> Def("u1")],
      [json |-> FALSE, action |-> UndefId, userId |-> UndefId] }

\* an activity event is placed on user-activity
publishUserActivity ==
    /\ Len(userActivity) < MaxActivity
    /\ \E k \in Keys, v \in ActivityPayloads :
          userActivity' = Append(userActivity, [key |-> k, value |-> v])
    /\ UNCHANGED <<Upstream, tokenCache, Topics, Bus, http, Side,
                   activityOffset, activityLog, crashes, authReq, ui, phase, Ipam>>

\* variant of processUserActivity that relays the event it has logged
processUserActivity_relay ==
    /\ activityOffset < Len(userActivity)
    /\ LET message == userActivity[activityOffset + 1]
       IN  /\ activityLog' = Append(activityLog,
                                    IF message.value.json THEN "processed" ELSE "parse")
           /\ IF message.value.json
              THEN userActivity' = Append(userActivity, message)
              ELSE UNCHANGED userActivity
    /\ activityOffset' = activityOffset + 1
    /\ UNCHANGED <<Upstream, tokenCache, Topics, Bus, http, Side, crashes, authReq, ui, phase,
                   Ipam>>

\* processUserActivity, whole (it has no await): JSON.parse, then logger.info;
\* an exception is caught and logged.  kafkajs then resolves eachMessage and moves
\* on to the next offset
processUserActivity ==
    /\ activityOffset < Len(userActivity)
    /\ LET message == userActivity[activityOffset + 1]
       IN  activityLog' = Append(activityLog,
                                 IF message.value.json THEN "processed" ELSE "parse")
    /\ activityOffset' = activityOffset + 1
    /\ UNCHANGED <<Upstream, tokenCache, Topics, Bus, http, Side, userActivity,
                   crashes, authReq, ui, phase, Ipam>>

InitBridge ==
    /\ InitHealthy

\* the steps of the bridge and of the clients that feed its topics.  The calls of
\* the bridge carry no Authorization header and are refused, so that no step of
\* producer.send exists for it
NextBridge ==
    \/ publishHostnameRequest
    \/ publishIpRequest
    \/ publishUserActivity
    \/ processHostnameRequest_parse
    \/ processHostnameRequest_post
    \/ processIpRequest_parse
    \/ processIpRequest_post
    \/ processUserActivity

SpecBridge == InitBridge /\ [][NextBridge]_vars

\* the ip-requests and user-activity consumers keep running and their calls
\* settle; nothing is assumed of the call of the hostname-requests handler, which
\* may stay pending for ever
FairBridge ==
    /\ WF_vars(processIpRequest_parse)
    /\ WF_vars(processIpRequest_post)
    /\ WF_vars(processUserActivity)

SpecBridgeFair == SpecBridge /\ FairBridge

----------------------------------------------------------------------------
(* Crash and restart of the bridge process.  kafkajs resolves a message, and    *)
(* its offset can be committed, only when eachMessage has returned; a consumer  *)
(* that restarts resumes at the offset its group committed                      *)

MaxCrashes == 1

Bridge == {BridgeHostname, BridgeIp}

\* the messages (consumer, position on its topic) whose handlers have started
\* and not returned
started == { [c |-> c, n |-> offset[c] + 1] : c \in { b \in Bridge : pc[b] # "idle" } }

\* the bridge process dies while a handler is running, and is started again: the
\* handlers' locals are lost, the offsets of the messages they were handling were
\* not committed, and the consumers take these messages again
crash ==
    /\ Len(crashes) < MaxCrashes
    /\ started # {}
    /\ crashes' = Append(crashes, started)
    /\ pc' = [c \in Consumers |-> IF c \in Bridge THEN "idle" ELSE pc[c]]
    /\ request' = [c \in Consumers |-> IF c \in Bridge THEN NoRequest ELSE request[c]]
    /\ response' = [c \in Consumers |-> IF c \in Bridge THEN NoDecision ELSE response[c]]
    /\ UNCHANGED <<Upstream, tokenCache, Topics, offset, log, http, Side, Activity,
                   phase, Ipam, authReq, ui>>

NextCrash ==
    \/ NextBridge
    \/ crash

\* every consumer of the bridge keeps running and every call settles
FairCrash ==
    /\ WF_vars(processHostnameRequest_parse)
    /\ WF_vars(processHostnameRequest_post)
    /\ WF_vars(processIpRequest_parse)
    /\ WF_vars(processIpRequest_post)
    /\ WF_vars(processUserActivity)

SpecCrash == InitBridge /\ [][NextCrash]_vars /\ FairCrash

----------------------------------------------------------------------------
(* Termination of ipam-service: process.on('SIGTERM') awaits                    *)
(* consumer.disconnect(), then producer.disconnect(), then calls                *)
(* process.exit(0).  The HTTP server started by app.listen is never closed      *)

\* SIGTERM is delivered: the handler calls consumer.disconnect()
sigterm ==
    /\ phase = "running"
    /\ phase' = "consumer.disconnect"
    /\ UNCHANGED <<Upstream, tokenCache, Topics, Bus, http, Side, Activity, crashes, authReq, ui,
                   Ipam>>

\* consumer.disconnect() settles: kafkajs stops the consumer once the
\* eachMessage that was running has returned; the handler calls
\* producer.disconnect()
consumerDisconnected ==
    /\ phase = "consumer.disconnect"
    /\ pc[IpamGroup] = "idle"
    /\ phase' = "producer.disconnect"
    /\ UNCHANGED <<Upstream, tokenCache, Topics, Bus, http, Side, Activity, crashes, authReq, ui,
                   Ipam>>

\* producer.disconnect() settles and process.exit(0) ends the process
producerDisconnected ==
    /\ phase = "producer.disconnect"
    /\ phase' = "exited"
    /\ UNCHANGED <<Upstream, tokenCache, Topics, Bus, http, Side, Activity, crashes, authReq, ui,
                   Ipam>>

InitShutdown ==
    /\ InitHealthy

\* the consumer takes a message only while it runs; a handler that has started
\* goes on until the process exits; the HTTP server answers as long as the process
\* lives
NextShutdown ==
    \/ publishIpRequest
    \/ (phase = "running" /\ ipamEachMessage_parse)
    \/ (phase # "exited" /\ ipamEachMessage_auth)
    \/ (phase # "exited" /\ ipamEachMessage_get)
    \/ (phase \in {"running", "consumer.disconnect"} /\ producerSend(IpamGroup))
    \/ (phase # "exited" /\ getHealth)
    \/ sigterm
    \/ consumerDisconnected
    \/ producerDisconnected

SpecShutdown == InitShutdown /\ [][NextShutdown]_vars

----------------------------------------------------------------------------
(* The message path with requests of several partition keys: the same request  *)
(* topics, consumers and handlers, fed with well-formed requests whose         *)
(* message keys differ                                                         *)

PartitionKeys == {"k1", "k2"}

\* well-formed payloads of the n-th request: a taken and a free hostname
KeyedHostnamePayloads(n) ==
    { [json |-> TRUE, requestId |-> Def(RequestId(n)), hostname |-> hp[1], prefix |-> hp[2]] :
        hp \in { <<Def(W7), Undef>>, <<Def(W9), Def(Web)>> } }

\* well-formed payloads of the n-th request: with and without an ip
KeyedIpPayloads(n) ==
    { [json |-> TRUE, requestId |-> Def(RequestId(n)), subnetId |-> Def("10"), ip |-> a] :
        a \in {UndefId, Def("10.0.0.9")} }

\* a client places a request with the key it chose on hostname-requests
publishKeyedHostnameRequest ==
    /\ Placed < MaxRequests
    /\ \E k \in PartitionKeys, v \in KeyedHostnamePayloads(Placed + 1) :
          hostnameRequests' = Append(hostnameRequests, [key |-> k, value |-> v])
    /\ UNCHANGED <<vms, firstFree, allocated, staticToken, faulty, tokenCache,
                   hostnameResponses, ipRequests, ipResponses, pc, offset,
                   request, response, http, log, Side, Ext>>

\* a client places a request with the key it chose on ip-requests
publishKeyedIpRequest ==
    /\ Placed < MaxRequests
    /\ \E k \in PartitionKeys, v \in KeyedIpPayloads(Placed + 1) :
          ipRequests' = Append(ipRequests, [key |-> k, value |-> v])
    /\ UNCHANGED <<vms, firstFree, allocated, staticToken, faulty, tokenCache,
                   hostnameRequests, hostnameResponses, ipResponses, pc, offset,
                   request, response, http, log, Side, Ext>>

InitKeys ==
    /\ Init

NextKeys ==
    \/ publishKeyedHostnameRequest
    \/ publishKeyedIpRequest
    \/ processHostnameRequest_parse
    \/ processHostnameRequest_post
    \/ proxmoxEachMessage_parse
    \/ proxmoxEachMessage_get
    \/ processIpRequest_parse
    \/ processIpRequest_post
    \/ ipamEachMessage_parse
    \/ ipamEachMessage_auth
    \/ ipamEachMessage_get
    \/ \E c \in Consumers : producerSend(c)
    \/ tokenExpires

SpecKeys == InitKeys /\ [][NextKeys]_vars

----------------------------------------------------------------------------
(* The ip-requests topic and its two consumers, the bridge's ipRequestConsumer *)
(* and the ipam-service consumer.  kafkajs calls eachMessage for the next       *)
(* message as soon as the previous call has returned, and every await of a     *)
(* handler settles, by an answer or by an error                                *)

IpConsumers == {BridgeIp, IpamGroup}

InitIpPath ==
    /\ Init

NextIpPath ==
    \/ publishIpRequest
    \/ processIpRequest_parse
    \/ processIpRequest_post
    \/ ipamEachMessage_parse
    \/ ipamEachMessage_auth
    \/ ipamEachMessage_get
    \/ \E c \in IpConsumers : producerSend(c)
    \/ tokenExpires

SpecIpPath == InitIpPath /\ [][NextIpPath]_vars

FairIpPath ==
    /\ WF_vars(processIpRequest_parse)
    /\ WF_vars(processIpRequest_post)
    /\ WF_vars(ipamEachMessage_parse)
    /\ WF_vars(ipamEachMessage_auth)
    /\ WF_vars(ipamEachMessage_get)
    /\ WF_vars(\E c \in IpConsumers : producerSend(c))

SpecIpPathFair == SpecIpPath /\ FairIpPath

----------------------------------------------------------------------------
(* auth-service: POST /auth/login and POST /auth/logout.  One request is       *)
(* followed from its arrival to the last callback it leaves behind.  The LDAP  *)
(* client's bind and search callbacks, the 'error' event of the client and the *)
(* settling of producer.send arrive in any order the event loop allows.        *)
(* authReq records: pc, the handler's position; attempts, the statuses of the  *)
(* calls of res.status().json(); status, the status that was sent; destroyed,  *)
(* client.destroy() was called; verified, the credentials (the token, for a    *)
(* logout) were found valid; accepted, the bus accepted the activity event;    *)
(* published, the events this request placed on user-activity, which the      *)
(* bridge's userActivityConsumer takes from there                              *)

UserId == "u1"

\* the value of the activity event published for action
activityEvent(action) ==
    [key |-> UserId,
     value |-> [json |-> TRUE, action |-> Def(action), userId |-> Def(UserId)]]

\* a new request arrives
newRequest(route) == [NoAuth EXCEPT !.route = route]

\* res.status(status).json(body): the first call sends the response; a call made
\* once the headers are sent throws ERR_HTTP_HEADERS_SENT and sends nothing
resJson(a, status) ==
    [a EXCEPT !.attempts = Append(@, status),
              !.headersSent = TRUE,
              !.status = IF a.headersSent THEN a.status ELSE status]

\* the catch of the login handler answers status, and finally destroys the client
loginCatch(a, status) ==
    [resJson(a, status) EXCEPT !.pc = "done", !.destroyed = TRUE]

\* outcomes of a callback of the service client: once the client is destroyed its
\* pending request can only fail
ClientOutcomes(a, outcomes, failure) ==
    IF a.destroyed THEN {failure} ELSE outcomes

\* POST /auth/login arrives; without username or password it is answered 400,
\* else the client is created, its 'error' listener installed and the service
\* bind started
postLogin ==
    /\ authReq.pc \in {"idle", "done"}
    /\ Len(userActivity) < MaxActivity
    /\ \E credentials \in BOOLEAN :
         authReq' = IF credentials
                    THEN [newRequest("login") EXCEPT !.pc = "bind"]
                    ELSE [resJson(newRequest("login"), 400) EXCEPT !.pc = "done"]
    /\ UNCHANGED <<Upstream, tokenCache, Topics, Bus, http, Side, Activity, crashes,
                   phase, Ipam, ui>>

\* the client emits 'error' while the handler is waiting: the listener destroys
\* the client and answers 500 unless the headers are sent
ldapError ==
    /\ authReq.pc \in {"bind", "search", "userBind", "send"}
    /\ ~authReq.destroyed
    /\ authReq' = [(IF authReq.headersSent THEN authReq ELSE resJson(authReq, 500))
                      EXCEPT !.destroyed = TRUE]
    /\ UNCHANGED <<Upstream, tokenCache, Topics, Bus, http, Side, Activity, crashes,
                   phase, Ipam, ui>>

\* the callback of the service bind runs
bindSettles ==
    /\ authReq.pc = "bind"
    /\ \E ok \in ClientOutcomes(authReq, BOOLEAN, FALSE) :
         authReq' = IF ok THEN [authReq EXCEPT !.pc = "search"]
                    ELSE loginCatch(authReq, 500)
    /\ UNCHANGED <<Upstream, tokenCache, Topics, Bus, http, Side, Activity, crashes,
                   phase, Ipam, ui>>

\* the search ends: with the user's entry, with no entry ('User not found') or
\* with an error
searchSettles ==
    /\ authReq.pc = "search"
    /\ \E outcome \in ClientOutcomes(authReq, {"found", "none", "error"}, "error") :
         authReq' = CASE outcome = "found" -> [authReq EXCEPT !.pc = "userBind"]
                      [] outcome = "none"  -> loginCatch(authReq, 401)
                      [] OTHER             -> loginCatch(authReq, 500)
    /\ UNCHANGED <<Upstream, tokenCache, Topics, Bus, http, Side, Activity, crashes,
                   phase, Ipam, ui>>

\* the callback of the bind with the user's dn and password runs, on a client of
\* its own; on success the token is signed and producer.send is called
userBindSettles ==
    /\ authReq.pc = "userBind"
    /\ \E ok \in BOOLEAN :
         authReq' = IF ok THEN [authReq EXCEPT !.pc = "send", !.verified = TRUE]
                    ELSE loginCatch(authReq, 401)
    /\ UNCHANGED <<Upstream, tokenCache, Topics, Bus, http, Side, Activity, crashes,
                   phase, Ipam, ui>>

\* await producer.send settles in the login handler: a rejection is logged by the
\* inner catch; then the handler answers 200 with the token.  If the headers are
\* sent that call throws into the outer catch, which answers 500
loginSendSettles ==
    /\ authReq.pc = "send"
    /\ \E accepted \in BOOLEAN :
         LET answered == resJson(authReq, 200)
             a == IF authReq.headersSent THEN resJson(answered, 500) ELSE answered
         IN  /\ userActivity' = IF accepted
                                THEN Append(userActivity, activityEvent("login"))
                                ELSE userActivity
             /\ authReq' = [a EXCEPT !.pc = "done", !.destroyed = TRUE,
                                     !.accepted = accepted,
                                     !.published = IF accepted THEN 1 ELSE 0]
    /\ UNCHANGED <<Upstream, tokenCache, Topics, Bus, http, Side, activityOffset,
                   activityLog, crashes, phase, Ipam, ui>>

\* POST /auth/logout arrives: without a token, or with one jwt.verify rejects, it
\* is answered 401; else producer.send is called, not awaited, and 200 is
\* answered
postLogout ==
    /\ authReq.pc \in {"idle", "done"}
    /\ Len(userActivity) < MaxActivity
    /\ \E token \in {"none", "invalid", "valid"} :
         authReq' = IF token = "valid"
                    THEN [resJson(newRequest("logout"), 200)
                             EXCEPT !.pc = "logoutSend", !.verified = TRUE]
                    ELSE [resJson(newRequest("logout"), 401) EXCEPT !.pc = "done"]
    /\ UNCHANGED <<Upstream, tokenCache, Topics, Bus, http, Side, Activity, crashes,
                   phase, Ipam, ui>>

\* the producer.send of the logout handler settles; its .catch logs a rejection
logoutSendSettles ==
    /\ authReq.pc = "logoutSend"
    /\ \E accepted \in BOOLEAN :
         /\ userActivity' = IF accepted
                            THEN Append(userActivity, activityEvent("logout"))
                            ELSE userActivity
         /\ authReq' = [authReq EXCEPT !.pc = "done", !.accepted = accepted,
                                       !.published = IF accepted THEN 1 ELSE 0]
    /\ UNCHANGED <<Upstream, tokenCache, Topics, Bus, http, Side, activityOffset,
                   activityLog, crashes, phase, Ipam, ui>>

InitAuth ==
    /\ Init

NextAuth ==
    \/ postLogin
    \/ ldapError
    \/ bindSettles
    \/ searchSettles
    \/ userBindSettles
    \/ loginSendSettles
    \/ postLogout
    \/ logoutSendSettles
    \/ processUserActivity

SpecAuth == InitAuth /\ [][NextAuth]_vars

----------------------------------------------------------------------------
(* The web client: App, its routes and the Navbar.  ui records: mounted, the   *)
(* effect of App has run; loading; token, the token in local storage, named    *)
(* by the user it was issued to; isAuthenticated; user, the user state (has =  *)
(* FALSE: null); path, the location after the redirects of the routes; login,  *)
(* a login request of the Login page is                                        *)
(* pending; logouts, the calls of handleLogout waiting for the logout API;     *)
(* last, how the logout API call of the last finished handleLogout ended       *)

MaxLogouts == 2

Users == {"u1", "u2"}

Protected == {"/", "/hostname-picker", "/ip-picker"}
\* "*" stands for any other location, which shows the NotFound page
Paths     == Protected \cup {"/login", "*"}

\* the location the routes leave the browser at: a protected route redirects to
\* /login unless isAuthenticated, and /login redirects to / when it is
resolve(path, authenticated) ==
    IF path \in Protected /\ ~authenticated THEN "/login"
    ELSE IF path = "/login" /\ authenticated THEN "/"
    ELSE path

\* App.handleLogout followed by navigate('/login')
loggedOut(u, outcome) ==
    [u EXCEPT !.token = UndefId, !.user = UndefId, !.isAuthenticated = FALSE,
              !.path = "/login", !.last = outcome]

\* the page is opened at some location and the effect of App reads local
\* storage: with a token it fetches the user, without one loading ends
mount ==
    /\ ~ui.mounted
    /\ \E stored \in {UndefId} \cup {Def(u) : u \in Users}, path \in Paths :
         ui' = IF TruthyId(stored)
               THEN [ui EXCEPT !.mounted = TRUE, !.token = stored, !.path = path]
               ELSE [ui EXCEPT !.mounted = TRUE, !.loading = FALSE,
                               !.path = resolve(path, FALSE)]
    /\ UNCHANGED <<Upstream, tokenCache, Topics, Bus, http, Side, Activity, crashes,
                   phase, Ipam, authReq>>

\* fetchUserData settles: an ok response authenticates, any other response or an
\* exception removes the token
fetchUserSettles ==
    /\ ui.mounted /\ ui.loading
    /\ \E outcome \in {"ok", "failed", "threw"} :
         ui' = IF outcome = "ok"
               THEN [ui EXCEPT !.user = ui.token, !.isAuthenticated = TRUE,
                               !.loading = FALSE, !.path = resolve(@, TRUE)]
               ELSE [ui EXCEPT !.token = UndefId, !.loading = FALSE,
                               !.path = resolve(@, FALSE)]
    /\ UNCHANGED <<Upstream, tokenCache, Topics, Bus, http, Side, Activity, crashes,
                   phase, Ipam, authReq>>

\* the user follows a link or enters a location
navigateTo ==
    /\ ~ui.loading
    /\ \E path \in Paths : ui' = [ui EXCEPT !.path = resolve(path, ui.isAuthenticated)]
    /\ UNCHANGED <<Upstream, tokenCache, Topics, Bus, http, Side, Activity, crashes,
                   phase, Ipam, authReq>>

\* the Login page submits the credentials
submitLogin ==
    /\ ~ui.loading /\ ui.path = "/login" /\ ~ui.login
    /\ ui' = [ui EXCEPT !.login = TRUE]
    /\ UNCHANGED <<Upstream, tokenCache, Topics, Bus, http, Side, Activity, crashes,
                   phase, Ipam, authReq>>

\* the login request settles: on success App.handleLogin stores the token and
\* the user and the Login page navigates to /
loginSettles ==
    /\ ui.login
    /\ \E answer \in {UndefId} \cup {Def(u) : u \in Users} :
         ui' = IF answer.has
               THEN [ui EXCEPT !.login = FALSE, !.token = answer, !.user = answer,
                               !.isAuthenticated = TRUE, !.path = "/"]
               ELSE [ui EXCEPT !.login = FALSE]
    /\ UNCHANGED <<Upstream, tokenCache, Topics, Bus, http, Side, Activity, crashes,
                   phase, Ipam, authReq>>

\* the Logout button, shown while isAuthenticated, is clicked: Navbar.handleLogout
\* runs up to its await, or to its end when local storage holds no token
clickLogout ==
    /\ ~ui.loading /\ ui.isAuthenticated
    /\ ui.logouts < MaxLogouts
    /\ ui' = IF TruthyId(ui.token) THEN [ui EXCEPT !.logouts = @ + 1]
             ELSE loggedOut(ui, "noToken")
    /\ UNCHANGED <<Upstream, tokenCache, Topics, Bus, http, Side, Activity, crashes,
                   phase, Ipam, authReq>>

\* variant of logoutFetchSettles in which the session is ended only when the
\* logout API call did not throw
logoutFetchSettles_unlessThrown ==
    /\ ui.logouts > 0
    /\ \E outcome \in {"ok", "failed", "threw"} :
         ui' = IF outcome = "threw"
               THEN [ui EXCEPT !.logouts = @ - 1, !.last = outcome]
               ELSE [loggedOut(ui, outcome) EXCEPT !.logouts = @ - 1]
    /\ UNCHANGED <<Upstream, tokenCache, Topics, Bus, http, Side, Activity, crashes,
                   phase, Ipam, authReq>>

\* the logout API call of a pending handleLogout settles, with an ok response,
\* another response or an exception: the finally block calls onLogout and
\* navigates to /login
logoutFetchSettles ==
    /\ ui.logouts > 0
    /\ \E outcome \in {"ok", "failed", "threw"} :
         ui' = [loggedOut(ui, outcome) EXCEPT !.logouts = @ - 1]
    /\ UNCHANGED <<Upstream, tokenCache, Topics, Bus, http, Side, Activity, crashes,
                   phase, Ipam, authReq>>

InitWeb ==
    /\ Init

NextWeb ==
    \/ mount
    \/ fetchUserSettles
    \/ navigateTo
    \/ submitLogin
    \/ loginSettles
    \/ clickLogout
    \/ logoutFetchSettles

SpecWeb == InitWeb /\ [][NextWeb]_vars

----------------------------------------------------------------------------
(* Vocabulary of the properties *)

\* positions of the responses on a response topic that carry the requestId of req
AnswersTo(responses, req) ==
    { i \in 1..Len(responses) :
        req.value.json /\ responses[i].requestId = req.value.requestId }

\* consumer c has finished with the n-th message of its topic
Consumed(c, n) == offset[c] >= n

\* case-insensitive equality of two names, by folding both to upper case
UpperChar(c) ==
    CASE c = "w" -> "W"
      [] c = "e" -> "E"
      [] c = "b" -> "B"
      [] c = "x" -> "X"
      [] OTHER   -> c
SameNameIgnoringCase(a, b) ==
    Len(a) = Len(b) /\ \A i \in 1..Len(a) : UpperChar(a[i]) = UpperChar(b[i])

\* hostname h is held by some host of the inventory
Taken(h) == \E i \in 1..Len(vms) : SameNameIgnoringCase(vms[i], h)

\* the last HTTP exchange is a check-hostname call that was answered 200
CheckHostnameAnswered == http.endpoint = "check-hostname" /\ http.status = 200

\* suggestions of a decision, a missing field read as the empty list
SuggestionsOf(x) == IF x.suggestions.has THEN x.suggestions.val ELSE <<>>

\* numbers n such that some host is named <p><digits of n>, compared
\* case-insensitively; leading zeros allowed
Numbered(p) ==
    { parseInt(SubSeq(vms[i], Len(p) + 1, Len(vms[i]))) :
        i \in { j \in 1..Len(vms) :
                  /\ Len(vms[j]) > Len(p)
                  /\ SameNameIgnoringCase(SubSeq(vms[j], 1, Len(p)), p)
                  /\ \A k \in (Len(p) + 1)..Len(vms[j]) : IsDigit(vms[j][k]) } }
LargestNumber(p) ==
    IF Numbered(p) = {} THEN 0
    ELSE CHOOSE n \in Numbered(p) : \A m \in Numbered(p) : m <= n
ThreeAfter(p) == [i \in 1..3 |-> p \o NatToStr(LargestNumber(p) + i)]

----------------------------------------------------------------------------
(* Properties *)

C2_RequestIdEchoed ==
    /\ \A i \in 1..Len(hostnameResponses) :
         hostnameResponses[i].requestId =
            hostnameRequests[hostnameResponses[i].src].value.requestId
    /\ \A i \in 1..Len(ipResponses) :
         ipResponses[i].requestId = ipRequests[ipResponses[i].src].value.requestId

\* the first of two hostname requests is answered while the handler of the other
\* consumer group is in the middle of the second one
C2_Witness ==
    /\ Len(hostnameRequests) = 2
    /\ \E i \in 1..Len(hostnameResponses) :
         hostnameResponses[i].src = 1 /\ hostnameResponses[i].requestId = Def("r1")
    /\ pc[BridgeHostname] = "call" /\ offset[BridgeHostname] = 1
    /\ request[BridgeHostname].requestId = Def("r2")

\* C3: once the bridge has handled a hostname request that has a hostname and a
\* requestId, with every service and the upstream answering and the bus accepting
\* publishes, a response of the bridge with that requestId is on hostname-responses.
C3_BridgeAnswers ==
    \A n \in 1..Len(hostnameRequests) :
        LET v == hostnameRequests[n].value
        IN  (/\ v.json /\ Truthy(v.hostname) /\ TruthyId(v.requestId)
             /\ Consumed(BridgeHostname, n))
            => \E i \in 1..Len(hostnameResponses) :
                  /\ hostnameResponses[i].by = "kafka-consumer"
                  /\ hostnameResponses[i].requestId = v.requestId

\* C4: every response published for a hostname request has the available and
\* suggestions that POST check-hostname returns for the same hostname and prefix
\* on the same inventory.
C4_SameDecisionAsHttp ==
    \A i \in 1..Len(hostnameResponses) :
        LET m == hostnameResponses[i]
            v == hostnameRequests[m.src].value
            r == checkHostname([has |-> TRUE, val |-> <<"Bearer", "jwt">>],
                               [hostname |-> v.hostname, prefix |-> v.prefix],
                               [ok |-> TRUE, names |-> vms])
        IN  r.status = 200 =>
               /\ m.available = r.data.available
               /\ SuggestionsOf(m) = SuggestionsOf(r.data)

\* C5: check-hostname answers available = false exactly when some host of the
\* inventory has the requested name up to letter case, and true otherwise.
C5_AvailableIffNotTaken ==
    CheckHostnameAnswered =>
        /\ http.data.available.has
        /\ http.data.available.val = ~Taken(http.body.hostname.val)

\* the requested name differs from a host's name only by case and is reported taken
C5_Witness ==
    /\ CheckHostnameAnswered
    /\ http.body.hostname.val = W7l
    /\ \E i \in 1..Len(vms) : vms[i] = W7
    /\ \A i \in 1..Len(vms) : vms[i] # W7l
    /\ http.data.available.val = FALSE

\* C6: for a taken hostname and a non-empty prefix p, check-hostname returns
\* exactly [p(N+1), p(N+2), p(N+3)], N the largest number of a host named
\* <p><digits> (0 if none).
C6_SuggestionsWhenTaken ==
    (/\ CheckHostnameAnswered
     /\ Taken(http.body.hostname.val)
     /\ Truthy(http.body.prefix))
    => /\ http.data.suggestions.has
       /\ http.data.suggestions.val = ThreeAfter(http.body.prefix.val)

\* C7: for an available hostname, check-hostname returns an empty suggestions
\* sequence, whatever the prefix.
C7_NoSuggestionsWhenAvailable ==
    (CheckHostnameAnswered /\ ~Taken(http.body.hostname.val))
    => http.data.suggestions = [has |-> TRUE, val |-> <<>>]

\* C8: for a taken hostname and no prefix, the HTTP result carries no suggestions
\* and the response value the bridge builds from it has suggestions = [].
C8_NoPrefixNoSuggestions ==
    (/\ CheckHostnameAnswered
     /\ Taken(http.body.hostname.val)
     /\ ~Truthy(http.body.prefix))
    => /\ ~http.data.suggestions.has
       /\ bridgeHostnameValue(http.data).suggestions = [has |-> TRUE, val |-> <<>>]
       /\ bridgeHostnameValue(http.data).available = [has |-> TRUE, val |-> FALSE]

\* a taken name was checked without a prefix
C8_Witness ==
    /\ CheckHostnameAnswered
    /\ Taken(http.body.hostname.val)
    /\ ~http.body.prefix.has
    /\ http.data.available.val = FALSE

C10_NoSubnetNoResponse ==
    \A n \in 1..Len(ipRequests) :
        LET v == ipRequests[n].value
        IN  ~(v.json /\ TruthyId(v.subnetId)) =>
              \A i \in 1..Len(ipResponses) : ipResponses[i].src # n

\* the response topic the handler of consumer c publishes to
Responses(c) ==
    IF c \in {BridgeHostname, ProxmoxGroup} THEN hostnameResponses ELSE ipResponses

\* the handler of consumer c ended on the n-th message of its topic because the
\* payload did not parse or because its call to the engine failed
EngineCallFailed(c, n) ==
    n <= Len(log[c]) /\ log[c][n] \in {"parse", "engine"}

EngineEndpoints == {"check-hostname", "check-ip", "next-available"}

\* the request carries a credential: an Authorization header with a non-empty
\* word after the scheme
HasCredential(authorization) ==
    /\ authorization.has
    /\ Len(authorization.val) >= 2
    /\ authorization.val[2] # ""

\* number of times x occurs in the sequence calls
Occurrences(calls, x) == Cardinality({ i \in 1..Len(calls) : calls[i] = x })

\* the upstream request that carries the question of an ipam endpoint
DataCall(endpoint) ==
    IF endpoint = "check-ip" THEN "addresses/search" ELSE "first_free"

\* the last exchange is a call of an ipam endpoint whose handler put its question
\* to the upstream
IpamAsked ==
    /\ http.endpoint \in {"check-ip", "next-available"}
    /\ Occurrences(http.calls, DataCall(http.endpoint)) >= 1

\* C13: when the upstream answers an ipam call with a 401-class status, the
\* service logs in again and issues that call a second time, exactly once.
C13_RetriesOnceOn401 ==
    (IpamAsked /\ http.answers.data.kind = "unauthorized")
    => /\ Occurrences(http.calls, DataCall(http.endpoint)) = 2
       /\ Occurrences(http.calls, "user") >= 1

\* a required field of the last exchange's body is missing
MissingRequired ==
    CASE http.endpoint = "check-hostname" -> ~Truthy(http.body.hostname)
      [] http.endpoint = "check-ip" ->
            ~TruthyId(http.body.subnetId) \/ ~TruthyId(http.body.ip)
      [] http.endpoint = "next-available" -> ~TruthyId(http.body.subnetId)
      [] OTHER -> FALSE

\* C14: a request to an engine endpoint of a service that lacks a required field
\* (hostname; subnetId or ip; subnetId) is answered 400 and no request, the
\* upstream login included, has been issued to the upstream for it.
C14_ValidatesBeforeUpstream ==
    (/\ http.endpoint \in EngineEndpoints
     /\ http.via = "service"
     /\ HasCredential(http.authorization)
     /\ MissingRequired)
    => /\ http.status = 400
       /\ http.calls = <<>>

\* the search answer carries no address record
NoRecord(answer) == ~answer.data.has \/ answer.data.val = <<>>

\* C15: a check-ip call with non-empty ip and subnetId whose upstream search
\* succeeds is answered 200 with available = true exactly when the search
\* returned no address record for ip.
C15_AvailableIffNoRecord ==
    (/\ IpamAsked /\ http.endpoint = "check-ip"
     /\ http.answers.data.ok)
    => /\ TruthyId(http.body.ip) /\ TruthyId(http.body.subnetId)
       /\ http.status = 200
       /\ http.data.available.has
       /\ http.data.available.val = NoRecord(http.answers.data)

\* check-ip has answered available = true on a search result whose data is an
\* empty list, and the address is indeed not allocated
C15_Witness ==
    /\ IpamAsked /\ http.endpoint = "check-ip"
    /\ http.answers.data.ok
    /\ http.answers.data.data = Def(<<>>)
    /\ http.body.ip.val \notin allocated
    /\ http.data.available = [has |-> TRUE, val |-> TRUE]

\* C16: next-available returns the upstream's first free address and the given
\* subnetId, and when the upstream reports the subnet exhausted the outcome is
\* neither a success nor the outcome of a generic upstream failure.
C16_NoCapacityDistinct ==
    (IpamAsked /\ http.endpoint = "next-available" /\ http.via = "service")
    => /\ http.answers.data.ok =>
             /\ http.status = 200
             /\ http.data.ip = http.answers.data.data
             /\ http.data.subnetId = http.body.subnetId
       /\ http.answers.data.kind = "exhausted" =>
             /\ http.status >= 400
             /\ <<http.status, http.data>> #
                   <<500, ErrorBody("Internal Server Error")>>

\* the decision of the last exchange repeats the decision made before it for the
\* same endpoint and input
Repeats ==
    (/\ http.endpoint \in EngineEndpoints
     /\ http.status = 200
     /\ prev.endpoint = http.endpoint
     /\ prev.body = http.body)
    => http.data = prev.data

\* C17: no call of an engine endpoint changes the upstream inventory, and a call
\* answered 200 returns the decision an earlier call with the same input
\* returned.
C17_ReadOnlyRepeatable ==
    [][UNCHANGED <<vms, firstFree, allocated>> /\ Repeats']_vars

\* next-available has been answered twice for the same subnet, with the same
\* address
C17_Witness ==
    /\ http.endpoint = "next-available" /\ http.status = 200
    /\ prev.endpoint = "next-available" /\ prev.body = http.body
    /\ http.data.ip = prev.data.ip /\ http.data.ip.has
    /\ firstFree[http.body.subnetId.val] = http.data.ip

HostsServed == http.endpoint = "hosts" /\ HasCredential(http.authorization)
EntryAge    == http.at - http.entry.set

\* the cache and the last answer of GET /proxmox/hosts agree with the ttl: every
\* entry expires StdTTL after its insertion; an entry younger than that is
\* served as it was set; an entry older than that, or no entry, is not served
CacheSound ==
    /\ \A k \in CacheKeys :
          nodeCache[k].has => nodeCache[k].t = nodeCache[k].set + StdTTL
    /\ HostsServed =>
          /\ (http.entry.has /\ EntryAge < StdTTL) =>
                /\ http.fromCache /\ http.status = 200
                /\ http.hosts = Def(http.entry.v)
          /\ (http.entry.has /\ EntryAge > StdTTL) => ~http.fromCache
          /\ ~http.entry.has => ~http.fromCache

\* C12: the cache never serves an expired entry: a get after the entry's ttl,
\* counted from its insertion, finds nothing, a get before that returns the value
\* that was set, and an entry is removed only once it has expired.
C12_NeverServesExpired ==
    [][/\ CacheSound'
       /\ \A k \in CacheKeys :
             (nodeCache[k].has /\ ~nodeCache'[k].has) =>
                 now - nodeCache[k].set >= StdTTL]_vars

\* an entry older than its ttl was not served: the hosts were fetched again and
\* differ from what the entry held
C12_Witness ==
    /\ HostsServed /\ http.entry.has
    /\ EntryAge > StdTTL
    /\ ~http.fromCache /\ http.status = 200
    /\ http.hosts = Def(vms) /\ http.entry.v # vms

\* C19: GET /health answers 200 {status: ok} to every request, with or without
\* a credential, whatever the number of requests received before it.
C19_HealthAlwaysOk ==
    http.endpoint = "health" => (http.status = 200 /\ http.answer = "ok")


\* C21: the three topics of the bridge are consumed independently.  Under the
\* fairness of the ip-requests and user-activity consumers alone, every IP
\* request and every activity event placed on its topic is eventually consumed
\* (these two consumers have again and again consumed all that was placed),
\* whatever the hostname-requests handler does: its call may stay pending for ever
C21_TopicsIndependent ==
    []<>(/\ offset[BridgeIp] = Len(ipRequests)
         /\ activityOffset = Len(userActivity))

\* the hostname-requests handler is blocked on the call for its first message
\* while an IP request and an activity event placed later have been consumed
C21_Witness ==
    /\ pc[BridgeHostname] = "call" /\ offset[BridgeHostname] = 0
    /\ offset[BridgeIp] >= 1
    /\ activityOffset >= 1

\* C26: activity events are only consumed and logged.  A step that consumes an
\* activity event, well-formed or not, logs one entry for it, moves on by one
\* offset and places no message on any topic; and a pending activity event can
\* always be taken, whatever happened to the events before it
C26_ActivityLoggedOnly ==
    /\ [][activityOffset' # activityOffset =>
            /\ UNCHANGED <<Topics, userActivity>>
            /\ activityOffset' = activityOffset + 1
            /\ Len(activityLog') = activityOffset']_vars
    /\ [](activityOffset < Len(userActivity) => ENABLED processUserActivity)

\* an activity event whose processing failed (JSON.parse) was followed by one
\* that was processed
C26_Witness ==
    /\ Len(activityLog) = 2
    /\ activityLog[1] = "parse"
    /\ activityLog[2] = "processed"
    /\ Len(hostnameResponses) = 0 /\ Len(ipResponses) = 0


\* the bridge crashed while its handler of the n-th message of c's topic was running
CrashedOn(c, n) ==
    \E i \in 1..Len(crashes) : [c |-> c, n |-> n] \in crashes[i]

\* C22: delivery is at-least-once.  A request the bridge was handling when it
\* crashed (its call to the engine issued, its response not yet published) is
\* taken again after the restart, and a response of the bridge that carries its
\* requestId is eventually published
C22_AnsweredAfterCrash ==
    \A n \in 1..MaxRequests :
       (/\ CrashedOn(BridgeHostname, n)
        /\ hostnameRequests[n].value.requestId.has)
         ~> (\E i \in 1..Len(hostnameResponses) :
                /\ hostnameResponses[i].by = clientId(BridgeHostname)
                /\ hostnameResponses[i].requestId = hostnameRequests[n].value.requestId)


\* a step in which consumer c takes a new message
TakesMessage(c) ==
    pc[c] = "idle" /\ (pc'[c] # "idle" \/ offset'[c] # offset[c])

\* a step in which the HTTP server takes a request
TakesConnection == hits' # hits \/ http' # http

\* C23: graceful shutdown.  From the termination signal on the service takes no
\* new message and no new connection; and the producer is disconnected, and the
\* process exits, only when no handler that has started still has a response
\* to publish
C23_GracefulShutdown ==
    [][/\ phase # "running" => ~TakesMessage(IpamGroup) /\ ~TakesConnection
       /\ phase' \in {"producer.disconnect", "exited"} => pc'[IpamGroup] = "idle"]_vars


\* the responses keep the order of the requests that have the same key: of two
\* answered requests, the earlier one has a response before every response to the
\* later one
InOrder(requests, responses) ==
    \A a, b \in 1..Len(requests) :
       (/\ a < b
        /\ requests[a].key = requests[b].key
        /\ AnswersTo(responses, requests[a]) # {}
        /\ AnswersTo(responses, requests[b]) # {})
       => \E i \in AnswersTo(responses, requests[a]) :
             \A j \in AnswersTo(responses, requests[b]) : i < j

C28_DecisionThroughCache ==
    http.endpoint = "check-hostname" =>
       /\ live(http.entry, http.at) => http.calls = <<>>
       /\ (/\ prev.endpoint = "check-hostname"
           /\ http.at < prev.at + StdTTL
           /\ prev.calls # <<>>) => http.calls = <<>>


\* C25: a token obtained by login is never used for an upstream call once its
\* real validity has passed: every request sent through phpIpamApi carries a
\* token that the upstream issued less than TokenValidity seconds before
C25_TokenNeverStale ==
    sent.has => sent.at - sent.issued < TokenValidity

\* the ttl of a cached token has passed: the request was preceded by a new login
\* and was sent with the token just issued
C25_Witness ==
    /\ sent.has /\ sent.at = 3 * TokenTick /\ sent.issued = sent.at
    /\ http.endpoint = "subnets" /\ http.status = 200
    /\ http.calls = <<"user", "subnets">>


\* C29: once a listing is stored, every request made before the entry expires is
\* answered with the stored value and causes no upstream call: a handler that
\* read the cache while it held an unexpired list answers 200 from the cache
\* with no call, and no such handler is waiting for the upstream
C29_ServedFromCacheUntilExpiry ==
    /\ (http.endpoint = "subnets" /\ http.stored) =>
          /\ http.fromCache /\ http.status = 200
          /\ http.calls = <<>>
    /\ \A h \in Handlers : handlers[h].pc # "idle" => ~handlers[h].stored

\* the lists the upstream can answer with
CompleteValues == { a.data : a \in { b \in SubnetsAnswers : b.ok } }

\* handler h stores the list it has fetched
StoresList(h) ==
    handlers[h].pc = "get" /\ handlers'[h].pc = "idle" /\ http'.status = 200

\* C30: handlers that interleave on the same absent or expired key leave the
\* cache whole.  A set replaces the entry by exactly the value its handler
\* fetched, so that the entry is the value of the set that ran last; the entry
\* changes in no other way, except that it is removed once expired; and what the
\* cache holds, and what is served from it, is always one of the complete lists
C30_LastSetWins ==
    /\ [](/\ ipamCache["ipam_subnets"].has =>
                ipamCache["ipam_subnets"].v \in CompleteValues
          /\ (http.endpoint = "subnets" /\ http.fromCache) =>
                http.data \in CompleteValues)
    /\ [][/\ \A h \in Handlers :
               StoresList(h) =>
                  ipamCache'["ipam_subnets"] =
                     [has |-> TRUE, v |-> http'.data, set |-> now, t |-> now + StdTTL]
          /\ ipamCache'["ipam_subnets"] # ipamCache["ipam_subnets"] =>
                \/ \E h \in Handlers : StoresList(h)
                \/ /\ ~live(ipamCache["ipam_subnets"], now)
                   /\ ipamCache'["ipam_subnets"] = NoIpamEntry]_vars

\* two handlers missed the same key and fetched different lists; the second set
\* replaced what the first had stored, and the cache holds the second list
C30_Witness ==
    /\ http.endpoint = "subnets" /\ http.status = 200
    /\ ~http.stored /\ ~http.fromCache
    /\ http.over.has /\ http.over.set = now
    /\ http.over.v # http.data
    /\ ipamCache["ipam_subnets"].has
    /\ ipamCache["ipam_subnets"].v = http.data
    /\ \A h \in Handlers : handlers[h].pc = "idle"


\* the last two check-ip decisions are about the same address
SameIpTwice ==
    /\ http.endpoint = "check-ip" /\ http.status = 200
    /\ prev.endpoint = "check-ip"
    /\ prev.body.ip = http.body.ip

\* C31: the check-ip decision does not depend on the subnet.  Two decisions about
\* the same address, whatever the subnet ids of the two requests, report the
\* same availability, and an allocated address is reported unavailable whatever
\* the subnet the request names.
C31_SubnetIndependent ==
    /\ SameIpTwice => http.data.available = prev.data.available
    /\ (http.endpoint = "check-ip" /\ http.status = 200
        /\ http.body.ip.val \in allocated) =>
           http.data.available = [has |-> TRUE, val |-> FALSE]

\* an address allocated in subnet 20 has been checked for subnet 20 and then for
\* subnet 10, and reported unavailable both times
C31_Witness ==
    /\ SameIpTwice
    /\ http.body.ip.val \in allocated
    /\ prev.body.subnetId.val = subnetOf[http.body.ip.val]
    /\ http.body.subnetId.has
    /\ http.body.subnetId.val # subnetOf[http.body.ip.val]
    /\ http.data.available = [has |-> TRUE, val |-> FALSE]
    /\ prev.data.available = http.data.available


\* C32: every response published for an ip request with a subnetId answers that
\* request: with an ip, the response carries the same ip and the availability
\* check-ip gives for it (no record of it in the inventory); without an ip, it
\* carries the first free address of the subnet.  This holds for the responses of
\* the bridge and for those of the ipam-service consumer.
C32_IpAnswersItsRequest ==
    \A i \in 1..Len(ipResponses) :
        LET m == ipResponses[i]
            v == ipRequests[m.src].value
        IN  TruthyId(v.subnetId) =>
               IF TruthyId(v.ip)
               THEN /\ m.ip = v.ip
                    /\ m.available = [has |-> TRUE, val |-> v.ip.val \notin allocated]
               ELSE m.ip = firstFree[v.subnetId.val]


\* the response m answers a request of the topic requests, with that request's key
KeyedLike(m, requests) ==
    \E n \in 1..Len(requests) :
       /\ requests[n].value.requestId = m.requestId
       /\ requests[n].key = m.key

\* consumer c publishes its response
Publishes(c) == pc[c] = "send" /\ pc'[c] = "idle"

\* C33: every response is published with the key of the request message it
\* answers, on the response topic paired with the topic of that request: each
\* message of hostname-responses answers a request of hostname-requests and has
\* its key, each message of ip-responses answers a request of ip-requests and has
\* its key, and a handler's publish leaves the other response topic alone.
C33_KeyAndTopicPreserved ==
    /\ [](/\ \A i \in 1..Len(hostnameResponses) :
                KeyedLike(hostnameResponses[i], hostnameRequests)
          /\ \A i \in 1..Len(ipResponses) :
                KeyedLike(ipResponses[i], ipRequests))
    /\ [][\A c \in Consumers :
            Publishes(c) =>
               IF c \in {BridgeHostname, ProxmoxGroup}
               THEN ipResponses' = ipResponses
               ELSE hostnameResponses' = hostnameResponses]_vars

\* two ip requests with different keys have both been answered, each response
\* with the key of its request
C33_Witness ==
    /\ Len(ipRequests) = 2 /\ Len(ipResponses) = 2
    /\ ipRequests[1].key # ipRequests[2].key
    /\ \A i \in 1..2 :
          /\ ipResponses[i].key = ipRequests[ipResponses[i].src].key
          /\ ipResponses[i].requestId = ipRequests[ipResponses[i].src].value.requestId
    /\ ipResponses[1].src # ipResponses[2].src


\* the requests a handler can issue to an upstream
UpstreamCalls == {"user", "cluster/resources", "addresses/search", "first_free"}

\* an upstream request issued for the last exchange failed
UpstreamCallFailed ==
    \/ http.answers.login.kind \notin {"ok", "none"}
    \/ http.answers.data.kind \notin {"ok", "none"}

\* C34: no engine handler retries.  For one HTTP request each upstream endpoint is
\* called at most once, and when a call it issued fails (error status or
\* transport error) the request is answered 500.
C34_NeverRetries ==
    http.endpoint \in EngineEndpoints =>
       /\ \A x \in UpstreamCalls : Occurrences(http.calls, x) <= 1
       /\ UpstreamCallFailed => http.status = 500

\* next-available was answered 500 after a login and one first_free request that
\* failed
C34_Witness ==
    /\ http.endpoint = "next-available" /\ http.status = 500
    /\ http.answers.data.kind = "failed"
    /\ http.calls = <<"user", "first_free">>


\* the login request is among the upstream requests calls
LoggedIn(calls) == \E i \in 1..Len(calls) : calls[i] = "user"

\* handler h sends the login request
SendsLogin(h) == handlers[h].pc # "login" /\ handlers'[h].pc = "login"

\* C35: the credential source is exclusive.  With PHPIPAM_API_TOKEN configured no
\* handler ever sends the username/password login, whatever the state of the
\* cache, and every upstream request carries the static token; without it, a
\* login is sent only when the cache holds no unexpired token.
C35_CredentialSourceExclusive ==
    /\ [](TruthyId(staticToken) =>
             /\ \A h \in Handlers :
                   handlers[h].pc # "login" /\ ~LoggedIn(handlers[h].calls)
             /\ http.endpoint = "subnets" => ~LoggedIn(http.calls)
             /\ sent.has => sent.val = <<staticToken.val>>)
    /\ [][\A h \in Handlers :
            SendsLogin(h) =>
               /\ ~TruthyId(staticToken)
               /\ ~live(ipamCache["phpipam_token"], now)]_vars

\* with the static token configured, a request made later than the default ttl
\* after the start found no cached token, stored the static token again and went
\* to the upstream with it, without a login
C35_Witness ==
    /\ TruthyId(staticToken)
    /\ now > StdTTL
    /\ sent.has /\ sent.at = now /\ sent.val = <<staticToken.val>>
    /\ ipamCache["phpipam_token"].has /\ ipamCache["phpipam_token"].set = now
    /\ http.endpoint = "subnets" /\ http.status = 200 /\ ~http.fromCache
    /\ http.calls = <<"subnets">>


\* the upstream call or the login of handler h fails and h answers 500
FailsLookup(h) ==
    /\ handlers[h].pc \in {"login", "get"}
    /\ handlers'[h].pc = "idle"
    /\ http'.status = 500

\* C36: a failed lookup leaves the cache unchanged.  When the login or the
\* upstream call of a handler fails, no cache entry is created or replaced: an
\* unexpired value that another handler stored meanwhile stays, and nothing is
\* stored that a later request could be served in place of the upstream's
\* answer; what is served from the cache is always a list an upstream call
\* returned, with status 200.
C36_FailureLeavesCache ==
    /\ [][\A h \in Handlers : FailsLookup(h) => ipamCache' = ipamCache]_vars
    /\ []((http.endpoint = "subnets" /\ http.fromCache) =>
             /\ http.status = 200
             /\ http.data.has)

\* a handler that had missed the cache got a failure from the upstream while
\* another handler's list was sitting unexpired in the cache; the list is still
\* there
C36_Witness ==
    /\ http.endpoint = "subnets" /\ http.status = 500
    /\ ~http.stored
    /\ http.calls = <<"subnets">>
    /\ live(ipamCache["ipam_subnets"], now)
    /\ ipamCache["ipam_subnets"].v.has
    /\ \A h \in Handlers : handlers[h].pc = "idle"


\* the handler of consumer c returns from a message
Returns(c) == offset'[c] # offset[c]

C38_OneLoginResponse ==
    authReq.route = "login" => Len(authReq.attempts) <= 1

\* the event the finished request placed on user-activity
LastEvent == userActivity[Len(userActivity)]

\* C39: activity events are fire-and-forget.  A request whose credentials (for a
\* logout, whose token) are valid is answered 200 whether the bus accepts the
\* event or not, and when the bus accepts it exactly one event with the action of
\* the route, keyed by the user id, is on user-activity; a request that is not
\* answered 200 (a failed login, a logout without a valid token) has published
\* no event.
C39_ActivityFireAndForget ==
    authReq.pc = "done" =>
       /\ authReq.verified => authReq.status = 200
       /\ (authReq.verified /\ authReq.accepted) =>
             /\ authReq.published = 1
             /\ LastEvent = activityEvent(authReq.route)
             /\ LastEvent.key = LastEvent.value.userId.val
       /\ authReq.status # 200 => authReq.published = 0


\* a call of handleLogout completes
LogoutCompletes ==
    \/ ui'.logouts = ui.logouts - 1
    \/ ui'.last = "noToken" /\ ui.last # "noToken"

\* C40: in the web client logging out always ends the local session.  When a
\* call of handleLogout completes, however its logout API call ended, local
\* storage holds no token, isAuthenticated is false, user is null, the location
\* is /login and every protected route redirects there; and a protected page is
\* shown only while isAuthenticated is true.
C40_LogoutEndsSession ==
    /\ []((~ui.loading /\ ui.path \in Protected) => ui.isAuthenticated)
    /\ [][LogoutCompletes =>
            /\ ~ui'.token.has /\ ~ui'.isAuthenticated /\ ~ui'.user.has
            /\ ui'.path = "/login"
            /\ \A p \in Protected : resolve(p, ui'.isAuthenticated) = "/login"]_vars

\* a handleLogout whose logout API call threw has completed, and the session is
\* ended
C40_Witness ==
    /\ ui.last = "threw"
    /\ ui.logouts = 0
    /\ ~ui.token.has /\ ~ui.isAuthenticated /\ ~ui.user.has
    /\ ui.path = "/login"

====
